---------------------------- MODULE Spec2Model ----------------------------
(***************************************************************************)
(* Beckn <-> OCPI bridge (src/beckn_ocpi_bridge.py): proximity filter,     *)
(* on_search catalog construction, connector lookup by fulfillment id,     *)
(* tariff price extraction, and the select / init handlers.                *)
(*                                                                         *)
(* Encoding of values                                                      *)
(*  - a string identifier is a sequence of tokens; the token "_" is the    *)
(*    underscore character and no other token contains an underscore, so   *)
(*    f"{a}_{b}" is a \o <<"_">> \o b and s.split("_") cuts at "_" tokens; *)
(*  - coordinates and distances are integers in metres of meridian arc;    *)
(*    all points lie on the meridian longitude = 0, where the haversine    *)
(*    distance of calculate_distance is the absolute latitude difference;  *)
(*  - prices are integers (price units).                                   *)
(***************************************************************************)
EXTENDS Integers, Sequences, FiniteSets, TLC

VARIABLES
  locations,   \* what OCPILocationClient.get_all_locations returns
  tariffs,     \* what OCPILocationClient.get_all_tariffs returns
  TARIFF_DECOMPOSITION_ENABLED,  \* module-level flag, read once at import
  req,         \* the request of the last handler invocation
  resp         \* the value that invocation returned

vars == <<locations, tariffs, TARIFF_DECOMPOSITION_ENABLED, req, resp>>

----------------------------------------------------------------------------
(* Bounds of the model *)

MaxLocs == 2         \* locations of an inventory whose coordinates vary
MaxConnectors == 2   \* connectors of an inventory whose identifiers vary
MaxComponents == 2   \* price components of a tariff's first element

----------------------------------------------------------------------------
(* Generic helpers *)

US == "_"

Abs(x) == IF x < 0 THEN 0 - x ELSE x

Km(x) == x * 1000

Range(s) == {s[i] : i \in 1..Len(s)}

SeqsUpTo(S, n) == UNION {[1..k -> S] : k \in 0..n}

\* f"{a}_{b}"
Join(a, b) == a \o <<US>> \o b

\* str(n) for a non-negative integer: one token holding the decimal digits
Str(n) == <<ToString(n)>>

\* s.split("_"): the maximal runs of non-"_" tokens, empty runs included
RECURSIVE SplitFrom(_, _, _)
SplitFrom(s, i, cur) ==
  IF i > Len(s) THEN <<cur>>
  ELSE IF s[i] = US THEN <<cur>> \o SplitFrom(s, i + 1, <<>>)
  ELSE SplitFrom(s, i + 1, Append(cur, s[i]))

Split(s) == SplitFrom(s, 1, <<>>)

----------------------------------------------------------------------------
(* LocationFilter *)

NoDistance == 0 - 1   \* the location dict has no 'distance_km' key

\* Haversine distance, restricted to two points of one meridian
\* (lon1 = lon2): a = sin^2(dlat/2), c = |dlat| in radians, R * c = |dlat|
\* in metres of arc.
calculate_distance(lat1, lon1, lat2, lon2) == Abs(lat2 - lat1) + Abs(lon2 - lon1)

\* round(distance, 2) of a distance in km: to the nearest 10 m. The
\* distances of the model never end in 5 m, so no tie is rounded.
Round2(d) == 10 * ((d + 5) \div 10)

\* float(coords.get('latitude', 0)), float(coords.get('longitude', 0))
loc_lat(coords) == IF coords.hasLat THEN coords.latitude ELSE 0
loc_lon(coords) == IF coords.hasLon THEN coords.longitude ELSE 0

\* list.sort(key=distance_km): stable, ascending
RECURSIVE InsertByDistance(_, _)
InsertByDistance(sorted, x) ==
  IF sorted = <<>> THEN <<x>>
  ELSE IF Head(sorted).distance_km <= x.distance_km
       THEN <<Head(sorted)>> \o InsertByDistance(Tail(sorted), x)
       ELSE <<x>> \o sorted

\* the list left in the order of the loop
Unsorted(s) == s

RECURSIVE SortByDistance(_)
SortByDistance(s) ==
  IF s = <<>> THEN <<>>
  ELSE InsertByDistance(SortByDistance(SubSeq(s, 1, Len(s) - 1)), s[Len(s)])

\* the body of the for loop: does the location pass, and with what distance
Retained(location, target_lat, target_lon, radius) ==
  LET coords == location.coordinates IN
  /\ coords.present
  /\ ~(loc_lat(coords) = 0 /\ loc_lon(coords) = 0)
  /\ calculate_distance(target_lat, target_lon,
                        loc_lat(coords), loc_lon(coords)) <= radius

WithDistance(location, target_lat, target_lon) ==
  [location EXCEPT !.distance_km =
     Round2(calculate_distance(target_lat, target_lon,
                               loc_lat(location.coordinates),
                               loc_lon(location.coordinates)))]

RECURSIVE FilterLoop(_, _, _, _)
FilterLoop(locs, target_lat, target_lon, radius) ==
  IF locs = <<>> THEN <<>>
  ELSE LET rest == FilterLoop(Tail(locs), target_lat, target_lon, radius) IN
       IF Retained(Head(locs), target_lat, target_lon, radius)
       THEN <<WithDistance(Head(locs), target_lat, target_lon)>> \o rest
       ELSE rest

LocationFilter_filter_locations_by_proximity(locs, target_lat, target_lon, radius) ==
  SortByDistance(FilterLoop(locs, target_lat, target_lon, radius))


----------------------------------------------------------------------------
(* Tariffs *)

NoTariff == [id |-> <<>>, currency |-> <<>>, elements |-> <<>>]

\* {t['id']: t for t in tariffs}: a dict keyed by tariff id, a later tariff
\* with the same id replacing an earlier one
LastWithId(list, id) ==
  list[CHOOSE i \in 1..Len(list) :
         /\ list[i].id = id
         /\ \A j \in (i + 1)..Len(list) : list[j].id # id]

build_tariff_lookup(list) ==
  [id \in {list[i].id : i \in 1..Len(list)} |-> LastWithId(list, id)]

\* dict.get(key): the tariff, or None (NoTariff, which is falsy)
DictGet(lookup, id) == IF id \in DOMAIN lookup THEN lookup[id] ELSE NoTariff

\* index of the first price component of type ENERGY, 0 when there is none
FirstEnergy(pcs) ==
  IF \E i \in 1..Len(pcs) : pcs[i].type = "ENERGY"
  THEN CHOOSE i \in 1..Len(pcs) :
         /\ pcs[i].type = "ENERGY"
         /\ \A j \in 1..(i - 1) : pcs[j].type # "ENERGY"
  ELSE 0

\* the first component whatever its type
FirstComponent(pcs) == pcs[1]

\* energy_price_component if found, else price_components[0]
ChosenComponent(pcs) ==
  IF FirstEnergy(pcs) # 0 THEN pcs[FirstEnergy(pcs)] ELSE pcs[1]

\* price_component.get("price", default)
PriceOr(pc, default) == IF pc.hasPrice THEN pc.price ELSE default

\* BecknOCPIBridge._extract_tariff_price_currency: (price or None, currency)
_extract_tariff_price_currency(tariff) ==
  LET elements == tariff.elements
      pcs == IF elements # <<>> THEN elements[1].price_components ELSE <<>>
  IN [isNone |-> pcs = <<>>,
      value |-> IF pcs = <<>> THEN 0 ELSE PriceOr(ChosenComponent(pcs), 0),
      currency |-> tariff.currency]

----------------------------------------------------------------------------
(* Identifiers *)

\* f"{evse['uid']}_{connector['id']}"
FulfillmentId(evse, connector) == Join(evse.uid, connector.id)

\* the three item-id forms of the search direction
TariffItemId(tariff_id, quantity_value) == Join(tariff_id, quantity_value)

DefaultItemId(evse, connector) == <<"item", US>> \o Join(evse.uid, connector.id)

FallbackItemId(evse, connector, quantity_value) ==
  Join(DefaultItemId(evse, connector), quantity_value)

\* (location, EVSE, connector) index triples in the order of the nested loops
RECURSIVE Flatten(_)
Flatten(ss) == IF ss = <<>> THEN <<>> ELSE Head(ss) \o Flatten(Tail(ss))

Triples(locs) ==
  Flatten([l \in 1..Len(locs) |->
    Flatten([e \in 1..Len(locs[l].evses) |->
      [c \in 1..Len(locs[l].evses[e].connectors) |->
         [l |-> l, e |-> e, c |-> c]]])])

EvseAt(locs, t) == locs[t.l].evses[t.e]
ConnAt(locs, t) == locs[t.l].evses[t.e].connectors[t.c]

NoTriple == [l |-> 0, e |-> 0, c |-> 0]

\* BecknOCPIBridge.__find_connector_by_fulfillment_id: the first connector in
\* scan order whose fulfillment id equals the argument, or (None, None, None)
_find_connector_by_fulfillment_id(ocpi_locations_list, fulfillment_id) ==
  LET ts == Triples(ocpi_locations_list)
      hits == {i \in 1..Len(ts) :
                 FulfillmentId(EvseAt(ocpi_locations_list, ts[i]),
                               ConnAt(ocpi_locations_list, ts[i])) = fulfillment_id}
  IN IF hits = {} THEN NoTriple
     ELSE ts[CHOOSE i \in hits : \A j \in hits : i <= j]

----------------------------------------------------------------------------
(* on_search catalog: transform_ocpi_locations_to_beckn_on_search_response *)

DefaultRadiusKm == 10

\* BecknOCPIBridge.filter_locations_by_proximity(locations, target_gps):
\* the radius is the default of the signature, 10 km
Bridge_filter_locations_by_proximity(locs, gps, radius) ==
  IF gps.kind = "ok"
  THEN LocationFilter_filter_locations_by_proximity(locs, gps.lat, gps.lon, radius)
  ELSE locs

\* price of the search item: str(price_component.get("price", 0)), "0" when
\* the tariff has no element or its first element no component
SearchPriceValue(tariff) ==
  IF tariff.elements # <<>> /\ tariff.elements[1].price_components # <<>>
  THEN PriceOr(ChosenComponent(tariff.elements[1].price_components), 0)
  ELSE 0

DefaultPrice ==
  [currency |-> <<"INR", "/kWh">>, value |-> 0, tariff_id |-> <<>>,
   tariff_data |-> NoTariff, tariff_ids |-> <<>>]

\* lines 599-664: the item id and the price of one connector
SearchOffer(evse, connector, lookup, enabled) ==
  LET quantity_value == Str(connector.max_electric_power)
      tariff_id == connector.tariff_ids[1]
      tariff == DictGet(lookup, tariff_id)
  IN IF enabled /\ DOMAIN lookup # {} /\ connector.tariff_ids # <<>>
     THEN IF tariff # NoTariff
          THEN [id |-> TariffItemId(tariff_id, quantity_value),
                price |-> [currency |-> tariff.currency,
                           value |-> SearchPriceValue(tariff),
                           tariff_id |-> tariff_id,
                           tariff_data |-> tariff,
                           tariff_ids |-> <<>>]]
          ELSE [id |-> DefaultItemId(evse, connector), price |-> DefaultPrice]
     ELSE IF ~enabled /\ connector.tariff_ids # <<>>
     THEN [id |-> TariffItemId(tariff_id, quantity_value),
           price |-> [DefaultPrice EXCEPT !.tariff_ids = connector.tariff_ids]]
     ELSE [id |-> FallbackItemId(evse, connector, quantity_value),
           price |-> DefaultPrice]

AppendNew(list, x) == IF x \in Range(list) THEN list ELSE Append(list, x)

\* lines 666-695: create the item, or add the ids to the item of that id
Upsert(items, offer, quantity_value, loc_id, fulfillment_id) ==
  IF \E i \in 1..Len(items) : items[i].id = offer.id
  THEN [i \in 1..Len(items) |->
          IF items[i].id = offer.id
          THEN [items[i] EXCEPT
                  !.location_ids = AppendNew(@, loc_id),
                  !.fulfillment_ids = AppendNew(@, fulfillment_id)]
          ELSE items[i]]
  ELSE Append(items, [id |-> offer.id, price |-> offer.price,
                      quantity_value |-> quantity_value,
                      location_ids |-> <<loc_id>>,
                      fulfillment_ids |-> <<fulfillment_id>>])

\* beckn_items after the first n connectors of the nested loops
RECURSIVE ItemsAfter(_, _, _, _)
ItemsAfter(locs, n, lookup, enabled) ==
  IF n = 0 THEN <<>>
  ELSE LET t == Triples(locs)[n]
           evse == EvseAt(locs, t)
           connector == ConnAt(locs, t)
       IN Upsert(ItemsAfter(locs, n - 1, lookup, enabled),
                 SearchOffer(evse, connector, lookup, enabled),
                 Str(connector.max_electric_power),
                 locs[t.l].id,
                 FulfillmentId(evse, connector))

\* beckn_fulfillments: one entry appended per connector visited. src is not
\* a field of the document: it records which connector produced the entry.
SearchFulfillments(locs) ==
  [n \in 1..Len(Triples(locs)) |->
     LET t == Triples(locs)[n] IN
     [id |-> FulfillmentId(EvseAt(locs, t), ConnAt(locs, t)),
      location_id |-> locs[t.l].id,
      evse_uid |-> EvseAt(locs, t).uid,
      src |-> <<locs[t.l].id, t.e, t.c>>]]

\* beckn_locations: "gps" reads coordinates['latitude'] and ['longitude']
SearchLocations(locs) ==
  [i \in 1..Len(locs) |-> [id |-> locs[i].id, distance |-> locs[i].distance_km]]

SearchResponse(kind, locs, items, fulfillments) ==
  [action |-> "on_search", kind |-> kind, locations |-> locs,
   items |-> items, fulfillments |-> fulfillments]

_create_empty_search_response == SearchResponse("empty", <<>>, <<>>, <<>>)
_create_error_search_response == SearchResponse("error", <<>>, <<>>, <<>>)

\* does the transformation raise: KeyError on a coordinates dict without
\* latitude or longitude (line 552), IndexError on list(party_ids)[0] when
\* no location is left (line 721)
TransformRaises(locs) ==
  \/ locs = <<>>
  \/ \E i \in 1..Len(locs) :
       ~locs[i].coordinates.hasLat \/ ~locs[i].coordinates.hasLon

transform_ocpi_locations_to_beckn_on_search_response(data, gps, lookup, enabled) ==
  LET ocpi_locations ==
        Bridge_filter_locations_by_proximity(data, gps, Km(DefaultRadiusKm))
  IN IF TransformRaises(ocpi_locations)
     THEN [raised |-> TRUE, response |-> _create_error_search_response]
     ELSE [raised |-> FALSE,
           response |->
             SearchResponse("catalog",
               SearchLocations(ocpi_locations),
               ItemsAfter(ocpi_locations, Len(Triples(ocpi_locations)),
                          lookup, enabled),
               SearchFulfillments(ocpi_locations))]

\* process_search_request(beckn_search_request, search_radius_km)
process_search_request(gps, search_radius, all_locations, all_tariffs, enabled) ==
  IF gps.kind # "ok" THEN _create_error_search_response
  ELSE IF all_locations = <<>> THEN _create_empty_search_response
  ELSE LET filtered_locations ==
             LocationFilter_filter_locations_by_proximity(
               all_locations, gps.lat, gps.lon, search_radius)
           tariff_lookup ==
             IF enabled THEN build_tariff_lookup(all_tariffs) ELSE <<>>
       IN IF filtered_locations = <<>> THEN _create_empty_search_response
          ELSE LET r == transform_ocpi_locations_to_beckn_on_search_response(
                          filtered_locations, gps, tariff_lookup, enabled)
               IN IF r.raised THEN _create_error_search_response
                  ELSE r.response

----------------------------------------------------------------------------
(* process_select_request *)

NoValue == [isNone |-> TRUE, value |-> 0]
Value(v) == [isNone |-> FALSE, value |-> v]

\* lines 1776-1846: the first connector whose fulfillment id matches
SelectMatch(ocpi_locations, fulfillment_id) ==
  LET ts == Triples(ocpi_locations)
      hits == {i \in 1..Len(ts) :
                 FulfillmentId(EvseAt(ocpi_locations, ts[i]),
                               ConnAt(ocpi_locations, ts[i])) = fulfillment_id}
  IN IF hits = {} THEN NoTriple
     ELSE ts[CHOOSE i \in hits : \A j \in hits : i <= j]

\* lines 1771-1772, 1796-1835: (tariff_price, currency) of the matched connector
SelectTariffPrice(connector, all_tariffs) ==
  LET none == [price |-> NoValue, currency |-> <<"INR", "/kWh">>, tariff_id |-> <<>>]
      tariff == DictGet(build_tariff_lookup(all_tariffs), connector.tariff_ids[1])
  IN IF connector.tariff_ids = <<>> THEN none
     ELSE IF /\ tariff # NoTariff
             /\ tariff.elements # <<>>
             /\ tariff.elements[1].price_components # <<>>
     THEN [price |-> Value(PriceOr(
                       ChosenComponent(tariff.elements[1].price_components), 8)),
           currency |-> tariff.currency,
           tariff_id |-> connector.tariff_ids[1]]
     ELSE none

\* float(tariff_price) * float(selected_value), None on TypeError
Product(price, selected_value) ==
  IF price.isNone \/ selected_value.isNone THEN NoValue
  ELSE Value(price.value * selected_value.value)

SelectErrorResponse ==
  [action |-> "on_select", kind |-> "error", items |-> <<>>,
   quote |-> [value |-> Value(0), currency |-> <<"INR">>],
   matched |-> NoTriple]

process_select_request(item_id, fulfillment_id, selected_value, all_locations, all_tariffs) ==
  LET t == SelectMatch(all_locations, fulfillment_id) IN
  IF t = NoTriple
  THEN SelectErrorResponse   \* matched_location.get(...) on None, line 1860
  ELSE LET p == SelectTariffPrice(ConnAt(all_locations, t), all_tariffs)
           total_price == Product(p.price, selected_value)
       IN [action |-> "on_select", kind |-> "ok",
           items |-> <<[id |-> item_id,
                        price |-> [value |-> p.price,
                                   currency |-> p.currency \o <<"/kWh">>],
                        tariff_id |-> p.tariff_id,
                        available |-> ConnAt(all_locations, t).max_electric_power,
                        selected |-> selected_value]>>,
           quote |-> [value |-> total_price, currency |-> <<"INR">>],
           matched |-> t]

----------------------------------------------------------------------------
(* process_init_request *)

\* lines 1167-1173: item_id.split("_")[0] when the id holds a "_", else None
\* (None and the empty string are both falsy: <<>>)
TariffIdFromItem(item_id) ==
  IF item_id # <<>> /\ US \in Range(item_id) THEN Split(item_id)[1] ELSE <<>>

\* no fallback to the connector's first tariff id
ConfirmTariffStrict(tariff_id_from_item, connector_tariff_ids) ==
  IF tariff_id_from_item # <<>> /\ tariff_id_from_item \in Range(connector_tariff_ids)
  THEN tariff_id_from_item
  ELSE <<>>

\* lines 1197-1206: the confirmed tariff id, <<>> when the handler raises
ConfirmTariff(tariff_id_from_item, connector_tariff_ids) ==
  IF tariff_id_from_item # <<>> /\ tariff_id_from_item \in Range(connector_tariff_ids)
  THEN tariff_id_from_item
  ELSE IF connector_tariff_ids # <<>> THEN connector_tariff_ids[1]
  ELSE <<>>

\* a failure response that still carries a payment record
InitErrorWithPayment(reason, t, confirmed_tariff_id) ==
  [action |-> "on_init", kind |-> "error", error |-> reason,
   items |-> <<>>, fulfillments |-> <<>>,
   payments |-> <<[amount |-> 0, currency |-> <<"INR">>, status |-> "NOT-PAID"]>>,
   quote |-> [value |-> 0, currency |-> <<"INR">>, breakup |-> <<>>],
   matched |-> t, confirmed_tariff_id |-> confirmed_tariff_id]

\* lines 1376-1400. error, matched and confirmed_tariff_id are not fields of
\* the document: they record the exception and how far the handler got.
InitErrorResponse(reason, t, confirmed_tariff_id) ==
  [action |-> "on_init", kind |-> "error", error |-> reason,
   items |-> <<>>, fulfillments |-> <<>>, payments |-> <<>>,
   quote |-> [value |-> 0, currency |-> <<"INR">>, breakup |-> <<>>],
   matched |-> t, confirmed_tariff_id |-> confirmed_tariff_id]

process_init_request(item_id, fulfillment_id, selected_value, all_locations, all_tariffs) ==
  LET t == _find_connector_by_fulfillment_id(all_locations, fulfillment_id)
      connector == ConnAt(all_locations, t)
      confirmed_tariff_id ==
        ConfirmTariff(TariffIdFromItem(item_id), connector.tariff_ids)
      confirmed_tariff ==
        DictGet(build_tariff_lookup(all_tariffs), confirmed_tariff_id)
      extracted == _extract_tariff_price_currency(confirmed_tariff)
      price_per_unit == IF extracted.isNone THEN 0 ELSE extracted.value
      consumption_value == IF selected_value.isNone THEN 0 ELSE selected_value.value
      total_price == price_per_unit * consumption_value
      selected == IF selected_value.isNone THEN 0 ELSE selected_value.value
  IN IF t = NoTriple
     THEN InitErrorResponse("No connector found for fulfillment id", t, <<>>)
     ELSE IF confirmed_tariff_id = <<>>
     THEN InitErrorResponse("No applicable tariff found for selected connector", t, <<>>)
     ELSE IF confirmed_tariff = NoTariff
     THEN InitErrorResponse("Tariff not found", t, confirmed_tariff_id)
     ELSE [action |-> "on_init", kind |-> "ok", error |-> "",
           items |-> <<[id |-> IF item_id # <<>> THEN item_id
                               ELSE confirmed_tariff_id,
                        price |-> [value |-> price_per_unit,
                                   currency |-> extracted.currency \o <<"/kWh">>],
                        available |-> connector.max_electric_power,
                        selected |-> selected]>>,
           fulfillments |-> <<[id |-> fulfillment_id]>>,
           payments |-> <<[amount |-> total_price,
                           currency |-> extracted.currency,
                           status |-> "NOT-PAID"]>>,
           quote |-> [value |-> total_price, currency |-> extracted.currency,
                      breakup |-> <<[value |-> total_price,
                                     currency |-> extracted.currency]>>],
           matched |-> t, confirmed_tariff_id |-> confirmed_tariff_id]

----------------------------------------------------------------------------
(* Inventories, tariffs and requests of the model *)

T == <<"T">>                 \* a tariff id
TX == <<"T", US, "x">>       \* a tariff id holding an underscore: "T_x"
U == <<"U">>                 \* a tariff id no fetched tariff carries

LocId(i) == <<"L", ToString(i)>>

Coords(lat) ==
  [present |-> TRUE, hasLat |-> TRUE, hasLon |-> TRUE,
   latitude |-> lat, longitude |-> 0]

NoCoords ==
  [present |-> FALSE, hasLat |-> FALSE, hasLon |-> FALSE,
   latitude |-> 0, longitude |-> 0]

\* no coordinates, (0,0), a record without longitude, a record without
\* latitude, and three points 1001 m, 1004 m and 15001 m north of (0,0)
CoordOptions ==
  {NoCoords, Coords(0),
   [Coords(1001) EXCEPT !.hasLon = FALSE],
   [Coords(0) EXCEPT !.hasLat = FALSE],
   Coords(1001), Coords(1004), Coords(15001)}

Connector(id, tariff_ids, power) ==
  [id |-> id, tariff_ids |-> tariff_ids, max_electric_power |-> power]

Location(i, coords, evses) ==
  [id |-> LocId(i), coordinates |-> coords, distance_km |-> NoDistance,
   evses |-> evses]

\* inventories whose coordinates vary: one EVSE with one connector each
GeoInventories ==
  {[i \in 1..Len(cs) |->
      Location(i, cs[i],
               <<[uid |-> <<"e", ToString(i)>>,
                  connectors |-> <<Connector(<<"1">>, <<T>>, 50)>>]>>)]
   : cs \in SeqsUpTo(CoordOptions, MaxLocs)}

\* inventories whose identifiers vary: built connector by connector, each
\* one opening a new location, a new EVSE of the last location, or joining
\* the last EVSE
EvseUids == {<<"a">>, <<"a", US, "b">>}
ConnIds == {<<"1">>, <<"b", US, "1">>}

Placements ==
  [where : {"new_location", "new_evse", "same_evse"},
   uid : EvseUids,
   connector : {Connector(id, refs, 50) : id \in ConnIds, refs \in {<<>>, <<T>>}}]

AddConnector(inv, p) ==
  LET n == Len(inv) IN
  IF p.where = "new_location"
  THEN Append(inv, Location(n + 1, Coords(1001 + 3 * n),
                            <<[uid |-> p.uid, connectors |-> <<p.connector>>]>>))
  ELSE IF p.where = "new_evse"
  THEN [inv EXCEPT ![n].evses =
          Append(@, [uid |-> p.uid, connectors |-> <<p.connector>>])]
  ELSE [inv EXCEPT ![n].evses[Len(inv[n].evses)].connectors =
          Append(@, p.connector)]

RECURSIVE BuildInventory(_)
BuildInventory(ps) ==
  IF ps = <<>> THEN <<>>
  ELSE AddConnector(BuildInventory(SubSeq(ps, 1, Len(ps) - 1)), ps[Len(ps)])

IdInventories ==
  {BuildInventory(ps) :
     ps \in {q \in SeqsUpTo(Placements, MaxConnectors) :
               q = <<>> \/ q[1].where = "new_location"}}

\* inventories whose tariff references vary: one connector
TariffRefs == {<<>>, <<T>>, <<TX>>, <<TX, T>>, <<U>>}

TariffInventories ==
  {<<Location(1, Coords(1001),
              <<[uid |-> <<"a">>,
                 connectors |-> <<Connector(<<"1">>, refs, 50)>>]>>)>>
   : refs \in TariffRefs}

\* price components: with and without the ENERGY type, with and without a
\* price field
ComponentOptions ==
  {[type |-> "OTHER", hasPrice |-> TRUE, price |-> 5],
   [type |-> "ENERGY", hasPrice |-> TRUE, price |-> 8],
   [type |-> "ENERGY", hasPrice |-> TRUE, price |-> 3],
   [type |-> "ENERGY", hasPrice |-> FALSE, price |-> 0]}

LaterElement ==
  [price_components |-> <<[type |-> "ENERGY", hasPrice |-> TRUE, price |-> 7]>>]

ElementLists ==
  {<<>>}
  \cup {<<[price_components |-> pcs]>> : pcs \in SeqsUpTo(ComponentOptions, MaxComponents)}
  \cup {<<[price_components |-> pcs], LaterElement>> :
          pcs \in SeqsUpTo(ComponentOptions, MaxComponents)}

Tariff(id, currency, elements) ==
  [id |-> id, currency |-> currency, elements |-> elements]

PlainTariffs ==
  <<Tariff(T, <<"INR">>,
           <<[price_components |->
                <<[type |-> "ENERGY", hasPrice |-> TRUE, price |-> 8]>>]>>)>>

TXTariff ==
  Tariff(TX, <<"EUR">>,
         <<[price_components |->
              <<[type |-> "ENERGY", hasPrice |-> TRUE, price |-> 4]>>]>>)

TariffLists ==
  {<<>>, <<TXTariff>>}
  \cup {<<Tariff(T, <<"INR">>, es)>> : es \in ElementLists}
  \cup {<<Tariff(T, <<"INR">>, es), TXTariff>> : es \in ElementLists}

\* requests
GpsValues ==
  {[kind |-> k, lat |-> 0, lon |-> 0] : k \in {"no_criteria", "no_gps", "malformed"}}
  \cup {[kind |-> "ok", lat |-> lat, lon |-> 0] : lat \in {0, 2002}}

Radii == {Km(5), Km(10), Km(20)}

FulfillmentIds ==
  {Join(u, c) : u \in EvseUids, c \in ConnIds} \cup {<<"e", "1", US, "1">>, <<"zz">>}

ItemIds ==
  {<<>>, <<"zz">>, TariffItemId(T, Str(50)), TariffItemId(TX, Str(50)),
   TariffItemId(U, Str(50))}

SelectedValues == {NoValue, Value(2)}

----------------------------------------------------------------------------
(* The state machine *)

NoRequest == [handler |-> "none"]
NoResponse == [action |-> "none"]

Init ==
  /\ \/ /\ locations \in GeoInventories \cup IdInventories
        /\ tariffs = PlainTariffs
        /\ TARIFF_DECOMPOSITION_ENABLED = TRUE
     \/ /\ locations \in TariffInventories
        /\ tariffs \in TariffLists
        /\ TARIFF_DECOMPOSITION_ENABLED \in BOOLEAN
  /\ req = NoRequest
  /\ resp = NoResponse

\* Invocations are synchronous and one at a time: a handler is called when
\* no call is in progress, and its caller takes the response (Deliver).
Idle == req = NoRequest

\* a direct call of LocationFilter.filter_locations_by_proximity
FilterLocations ==
  \E gps \in {g \in GpsValues : g.kind = "ok"}, radius \in Radii :
    /\ Idle
    /\ req' = [handler |-> "filter", gps |-> gps, radius |-> radius]
    /\ resp' = [action |-> "filtered",
                result |-> LocationFilter_filter_locations_by_proximity(
                             locations, gps.lat, gps.lon, radius)]
    /\ UNCHANGED <<locations, tariffs, TARIFF_DECOMPOSITION_ENABLED>>

Search ==
  \E gps \in GpsValues, radius \in Radii :
    /\ Idle
    /\ req' = [handler |-> "search", gps |-> gps, radius |-> radius]
    /\ resp' = process_search_request(gps, radius, locations, tariffs,
                                      TARIFF_DECOMPOSITION_ENABLED)
    /\ UNCHANGED <<locations, tariffs, TARIFF_DECOMPOSITION_ENABLED>>

Select ==
  \E item_id \in ItemIds, fulfillment_id \in FulfillmentIds,
     selected_value \in SelectedValues :
    /\ Idle
    /\ req' = [handler |-> "select", item_id |-> item_id,
               fulfillment_id |-> fulfillment_id,
               selected_value |-> selected_value]
    /\ resp' = process_select_request(item_id, fulfillment_id, selected_value,
                                      locations, tariffs)
    /\ UNCHANGED <<locations, tariffs, TARIFF_DECOMPOSITION_ENABLED>>

InitOrder ==
  \E item_id \in ItemIds, fulfillment_id \in FulfillmentIds,
     selected_value \in SelectedValues :
    /\ Idle
    /\ req' = [handler |-> "init", item_id |-> item_id,
               fulfillment_id |-> fulfillment_id,
               selected_value |-> selected_value]
    /\ resp' = process_init_request(item_id, fulfillment_id, selected_value,
                                    locations, tariffs)
    /\ UNCHANGED <<locations, tariffs, TARIFF_DECOMPOSITION_ENABLED>>

Deliver ==
  /\ ~Idle
  /\ req' = NoRequest
  /\ resp' = NoResponse
  /\ UNCHANGED <<locations, tariffs, TARIFF_DECOMPOSITION_ENABLED>>

Next == FilterLocations \/ Search \/ Select \/ InitOrder \/ Deliver

Spec == Init /\ [][Next]_vars

----------------------------------------------------------------------------
(* Properties: proximity filter and search catalog *)

\* a coordinate the specification calls valid: both fields present, not (0,0)
ValidCoordinate(coords) ==
  /\ coords.present /\ coords.hasLat /\ coords.hasLon
  /\ ~(coords.latitude = 0 /\ coords.longitude = 0)

CompleteOrAbsent(coords) == coords.present => (coords.hasLat /\ coords.hasLon)

DistanceTo(gps, loc) ==
  calculate_distance(gps.lat, gps.lon,
                     loc_lat(loc.coordinates), loc_lon(loc.coordinates))

\* ids of the fetched locations with a valid coordinate within the radius
MatchedIds(locs, gps, radius) ==
  {locs[i].id : i \in {j \in 1..Len(locs) :
                         /\ ValidCoordinate(locs[j].coordinates)
                         /\ DistanceTo(gps, locs[j]) <= radius}}

SearchedOk == req.handler = "search" /\ req.gps.kind = "ok"

\* C1: the locations of the on_search catalog are exactly the fetched
\* locations with a valid coordinate within the search radius R, for every R
\* (stated here for inventories whose coordinate records are complete, so
\* that the only question is the radius).
C1_CatalogHoldsEveryMatch ==
  (SearchedOk /\ \A i \in 1..Len(locations) : CompleteOrAbsent(locations[i].coordinates))
    => {resp.locations[i].id : i \in 1..Len(resp.locations)}
         = MatchedIds(locations, req.gps, req.radius)

Filtered == req.handler = "filter"

C3_NoInvalidCoordinateReturned ==
  Filtered =>
    \A i \in 1..Len(resp.result) : ValidCoordinate(resp.result[i].coordinates)

----------------------------------------------------------------------------
(* Properties: identifiers and catalog entries *)

Catalog == req.handler = "search" /\ resp.kind = "catalog"

\* the fetched locations that the catalog lists, in inventory order
CatalogLocs ==
  SelectSeq(locations,
            LAMBDA loc : \E i \in 1..Len(resp.locations) : resp.locations[i].id = loc.id)

CatalogTriples == Range(Triples(CatalogLocs))

TripleFid(locs, t) == FulfillmentId(EvseAt(locs, t), ConnAt(locs, t))

\* no two connectors of the snapshot have both the same EVSE uid and the
\* same connector id
PairsDistinct(locs) ==
  \A s, t \in Range(Triples(locs)) :
    s # t => <<EvseAt(locs, s).uid, ConnAt(locs, s).id>>
               # <<EvseAt(locs, t).uid, ConnAt(locs, t).id>>

\* C4: for every connector c of every EVSE e of every location l of the
\* snapshot, looking up e.uid + "_" + c.id returns exactly (l, e, c)
\* (stated for snapshots whose (EVSE uid, connector id) pairs are distinct).
C4_FindReturnsTheConnector ==
  (req.handler = "init" /\ PairsDistinct(locations)) =>
    \A t \in Range(Triples(locations)) :
      req.fulfillment_id = TripleFid(locations, t) => resp.matched = t

\* C5: the ids of the fulfillments of an on_search response are pairwise
\* distinct, and there is exactly one entry per (EVSE, connector) pair of the
\* matched locations (stated for snapshots whose (EVSE uid, connector id)
\* pairs are distinct).
C5_FulfillmentIdsDistinct ==
  (Catalog /\ PairsDistinct(locations)) =>
    /\ \A i, j \in 1..Len(resp.fulfillments) :
         i # j => resp.fulfillments[i].id # resp.fulfillments[j].id
    /\ \A i, j \in 1..Len(resp.fulfillments) :
         i # j => resp.fulfillments[i].src # resp.fulfillments[j].src
    /\ {resp.fulfillments[i].src : i \in 1..Len(resp.fulfillments)}
         = {<<CatalogLocs[t.l].id, t.e, t.c>> : t \in CatalogTriples}

NoDuplicates(list) == \A i, j \in 1..Len(list) : i # j => list[i] # list[j]

OfferId(locs, t) ==
  SearchOffer(EvseAt(locs, t), ConnAt(locs, t),
              IF TARIFF_DECOMPOSITION_ENABLED THEN build_tariff_lookup(tariffs) ELSE <<>>,
              TARIFF_DECOMPOSITION_ENABLED).id

\* C6: catalog items have pairwise distinct ids; an item's fulfillment_ids
\* (location_ids) is exactly the duplicate-free set of the fulfillment ids
\* (location ids) of the connectors deriving its id; every fulfillment id of
\* the fulfillments list occurs in the fulfillment_ids of exactly one item
\* (stated for snapshots whose (EVSE uid, connector id) pairs are distinct).
C6_ItemsPartitionFulfillments ==
  (Catalog /\ PairsDistinct(locations)) =>
    /\ \A i, j \in 1..Len(resp.items) : i # j => resp.items[i].id # resp.items[j].id
    /\ \A i \in 1..Len(resp.items) :
         LET item == resp.items[i]
             mine == {t \in CatalogTriples : OfferId(CatalogLocs, t) = item.id}
         IN /\ NoDuplicates(item.fulfillment_ids)
            /\ NoDuplicates(item.location_ids)
            /\ Range(item.fulfillment_ids) = {TripleFid(CatalogLocs, t) : t \in mine}
            /\ Range(item.location_ids) = {CatalogLocs[t.l].id : t \in mine}
    /\ \A k \in 1..Len(resp.fulfillments) :
         Cardinality({i \in 1..Len(resp.items) :
                        resp.fulfillments[k].id \in Range(resp.items[i].fulfillment_ids)}) = 1

\* C7: with a resolved tariff the item id of a connector is
\* tariff.id + "_" + str(max_electric_power); with none resolved (no tariff
\* ids, empty index, first id absent from the index) it is the fallback
\* built from EVSE uid, connector id and quantity value (stated here with
\* tariff decomposition enabled).
C7_ItemIdOfEveryConnector ==
  (Catalog /\ TARIFF_DECOMPOSITION_ENABLED) =>
    \A t \in CatalogTriples :
      LET evse == EvseAt(CatalogLocs, t)
          connector == ConnAt(CatalogLocs, t)
          quantity_value == Str(connector.max_electric_power)
          resolved == /\ connector.tariff_ids # <<>>
                      /\ \E k \in 1..Len(tariffs) : tariffs[k].id = connector.tariff_ids[1]
          expected == IF resolved
                      THEN connector.tariff_ids[1] \o <<US>> \o quantity_value
                      ELSE <<"item", US>> \o evse.uid \o <<US>> \o connector.id
                             \o <<US>> \o quantity_value
      IN \E i \in 1..Len(resp.items) :
           /\ resp.items[i].id = expected
           /\ TripleFid(CatalogLocs, t) \in Range(resp.items[i].fulfillment_ids)

----------------------------------------------------------------------------
(* Properties: init and pricing *)

Inited == req.handler = "init"

\* C8: the tariff id that init decodes from the item id search builds for
\* (T, q) is T, also when T holds "_"; so init prices with the tariff encoded
\* in the item id whenever that tariff is among the connector's tariff_ids.
C8_InitDecodesTheTariffId ==
  Inited =>
    \A tid \in {T, TX, U} :
      (/\ req.item_id = TariffItemId(tid, Str(50))
       /\ resp.matched # NoTriple
       /\ tid \in Range(ConnAt(locations, resp.matched).tariff_ids))
      => /\ TariffIdFromItem(req.item_id) = tid
         /\ resp.confirmed_tariff_id = tid

\* the case of C9: a connector was matched and the tariff id decoded from
\* the item id is not among its tariff_ids
DecodedIdNotOnConnector ==
  /\ Inited
  /\ resp.matched # NoTriple
  /\ TariffIdFromItem(req.item_id) \notin Range(ConnAt(locations, resp.matched).tariff_ids)

\* C9: in that case, a connector with at least one tariff id is priced with
\* its first tariff id and does not fail for lack of an applicable tariff;
\* a connector with no tariff id makes init fail with the
\* no-applicable-tariff error and the failure on_init response is returned.
C9_InitFallsBackToFirstTariff ==
  DecodedIdNotOnConnector =>
    LET ids == ConnAt(locations, resp.matched).tariff_ids IN
    IF ids # <<>>
    THEN /\ resp.confirmed_tariff_id = ids[1]
         /\ resp.error # "No applicable tariff found for selected connector"
         /\ (\E k \in 1..Len(tariffs) : tariffs[k].id = ids[1]) => resp.kind = "ok"
    ELSE /\ resp.kind = "error"
         /\ resp.error = "No applicable tariff found for selected connector"
         /\ resp.items = <<>> /\ resp.payments = <<>> /\ resp.quote.value = 0

\* init priced an order with the connector's first tariff although the
\* item id named another one
C9_Witness ==
  /\ DecodedIdNotOnConnector
  /\ TariffIdFromItem(req.item_id) = U
  /\ resp.kind = "ok"
  /\ resp.confirmed_tariff_id = T

\* the component the claim names: the first of type ENERGY in the first
\* element, else the first component of the first element
NamedComponent(tariff) ==
  LET pcs == tariff.elements[1].price_components
      energy == {i \in 1..Len(pcs) : pcs[i].type = "ENERGY"}
  IN pcs[IF energy = {} THEN 1 ELSE CHOOSE i \in energy : \A j \in energy : i <= j]

\* the tariff's first element has a component, and the named one a price
Priced(tariff) ==
  /\ tariff # NoTariff
  /\ tariff.elements # <<>>
  /\ tariff.elements[1].price_components # <<>>
  /\ NamedComponent(tariff).hasPrice

FetchedTariff(id) == DictGet(build_tariff_lookup(tariffs), id)

\* C10: for a tariff whose first element has a price component, the unit
\* price reported by search, by select and by init is the price of the
\* first ENERGY component of the first element, else of its first
\* component; later elements are never consulted.
C10_UnitPriceIsEnergyElseFirst ==
  /\ Catalog =>
       \A i \in 1..Len(resp.items) :
         Priced(resp.items[i].price.tariff_data) =>
           resp.items[i].price.value = NamedComponent(resp.items[i].price.tariff_data).price
  /\ (req.handler = "select" /\ resp.kind = "ok") =>
       LET ids == ConnAt(locations, resp.matched).tariff_ids IN
       (ids # <<>> /\ Priced(FetchedTariff(ids[1]))) =>
         resp.items[1].price.value = Value(NamedComponent(FetchedTariff(ids[1])).price)
  /\ (Inited /\ resp.kind = "ok") =>
       (Priced(FetchedTariff(resp.confirmed_tariff_id)) =>
          resp.items[1].price.value
            = NamedComponent(FetchedTariff(resp.confirmed_tariff_id)).price)

\* init priced a tariff whose first element is [OTHER 5, ENERGY 8] and has a
\* later element: the price is 8
C10_Witness ==
  /\ Inited /\ resp.kind = "ok"
  /\ LET tariff == FetchedTariff(resp.confirmed_tariff_id) IN
     /\ Len(tariff.elements) = 2
     /\ Len(tariff.elements[1].price_components) = 2
     /\ tariff.elements[1].price_components[1] = [type |-> "OTHER", hasPrice |-> TRUE, price |-> 5]
     /\ tariff.elements[1].price_components[2] = [type |-> "ENERGY", hasPrice |-> TRUE, price |-> 8]
  /\ resp.items[1].price.value = 8

----------------------------------------------------------------------------
(* Properties: tariffs without a price *)

\* a fetched tariff with no element, no component in its first element, or
\* whose named component has no price field
Unpriced(tariff) == tariff # NoTariff /\ ~Priced(tariff)

\* C11: for every resolved tariff without price elements, without price
\* components, or whose chosen component has no price field, the unit price
\* reported by search, by select and by init is zero.
C11_UnpricedTariffIsZeroEverywhere ==
  /\ Catalog =>
       \A i \in 1..Len(resp.items) :
         Unpriced(resp.items[i].price.tariff_data) => resp.items[i].price.value = 0
  /\ (req.handler = "select" /\ resp.kind = "ok") =>
       LET ids == ConnAt(locations, resp.matched).tariff_ids IN
       (ids # <<>> /\ Unpriced(FetchedTariff(ids[1]))) =>
         resp.items[1].price.value = Value(0)
  /\ (Inited /\ resp.kind = "ok") =>
       (Unpriced(FetchedTariff(resp.confirmed_tariff_id)) =>
          resp.items[1].price.value = 0)

----------------------------------------------------------------------------
(* Properties: failure responses of select and init *)

\* the fulfillment id matches no connector of the inventory
UnknownFulfillment(fulfillment_id) ==
  \A t \in Range(Triples(locations)) : TripleFid(locations, t) # fulfillment_id

\* C12: process_select_request called with a fulfillment id that matches no
\* connector returns an on_select response whose order holds the selected
\* item, its price and quantity fields present but zero or null.
C12_SelectUnknownFulfillmentKeepsItem ==
  (req.handler = "select" /\ UnknownFulfillment(req.fulfillment_id)) =>
    /\ resp.action = "on_select"
    /\ Len(resp.items) = 1
    /\ resp.items[1].id = req.item_id
    /\ resp.items[1].price.value \in {NoValue, Value(0)}
    /\ resp.items[1].selected = req.selected_value

----------------------------------------------------------------------------
(* Request and response documents: context, collaborators, exceptions *)

\* str(uuid.uuid4()): an id no request carries
Uuid4 == "uuid4"

RequestContext(transaction_id, message_id, action) ==
  [transaction_id |-> transaction_id, message_id |-> message_id, action |-> action]

Contexts(action) ==
  {RequestContext("tx1", "m1", action), RequestContext("tx2", "m2", action)}

\* {**context_in, "action": ..., "timestamp": ..., "message_id": str(uuid.uuid4())}
RegeneratedContext(context_in, action) ==
  [context_in EXCEPT !.action = action, !.message_id = Uuid4]

\* context.copy() updated with the action only
CopiedContext(context_in, action) == [context_in EXCEPT !.action = action]

\* what the caller of a handler gets: a response document, or the exception
\* the handler let escape. calls lists the collaborator calls made, in order.
Returned(context, calls, body) ==
  [raised |-> FALSE, context |-> context, calls |-> calls, body |-> body]

Raised(error, calls) ==
  [raised |-> TRUE, context |-> RequestContext("", "", "none"),
   calls |-> calls, body |-> [error |-> error]]

\* outcomes of the two fetches of the location client
FetchOutcomes == {"ok", "locations_raise", "tariffs_raise"}

\* process_init_request on a request document, with the behaviour of
\* get_all_locations and get_all_tariffs
InitDocument(context_in, item_id, fulfillment_id, selected_value, fetch) ==
  Returned(RegeneratedContext(context_in, "on_init"),
           IF fetch = "locations_raise" THEN <<"get_all_locations">>
           ELSE <<"get_all_locations", "get_all_tariffs">>,
           IF fetch = "ok"
           THEN process_init_request(item_id, fulfillment_id, selected_value,
                                     locations, tariffs)
           ELSE InitErrorResponse("fetch raised", NoTriple, <<>>))

FlowTariffs == {<<>>, PlainTariffs}

\* two locations whose connectors share the fulfillment id "a_1"
SharedFidInventory ==
  <<Location(1, Coords(1001),
             <<[uid |-> <<"a">>,
                connectors |-> <<Connector(<<"1">>, <<T>>, 50)>>]>>),
    Location(2, Coords(1001),
             <<[uid |-> <<"a">>,
                connectors |-> <<Connector(<<"1">>, <<T>>, 22)>>]>>)>>

\* the inventories of the document flows: also the empty one and one
\* where a fulfillment id is shared
FlowInventories == TariffInventories \cup {<<>>, SharedFidInventory}

\* the flag is read from the environment when the module is loaded (lines
\* 53-54): set by default, cleared in one deployment whose connector
\* refers to a tariff the client has
FlowInit ==
  /\ \/ /\ locations \in FlowInventories
        /\ tariffs \in FlowTariffs
        /\ TARIFF_DECOMPOSITION_ENABLED = TRUE
     \/ /\ locations \in {inv \in TariffInventories :
                             ConnAt(inv, [l |-> 1, e |-> 1, c |-> 1]).tariff_ids = <<T>>}
        /\ tariffs = PlainTariffs
        /\ TARIFF_DECOMPOSITION_ENABLED = FALSE
  /\ req = NoRequest
  /\ resp = NoResponse

InitDoc ==
  \E context \in Contexts("init"), item_id \in ItemIds,
     fulfillment_id \in FulfillmentIds, selected_value \in SelectedValues,
     fetch \in FetchOutcomes :
    /\ Idle
    /\ req' = [handler |-> "init_doc", context |-> context, item_id |-> item_id,
               fulfillment_id |-> fulfillment_id,
               selected_value |-> selected_value, fetch |-> fetch]
    /\ resp' = InitDocument(context, item_id, fulfillment_id, selected_value, fetch)
    /\ UNCHANGED <<locations, tariffs, TARIFF_DECOMPOSITION_ENABLED>>

InitFailed ==
  req.handler = "init_doc" /\ ~resp.raised /\ resp.body.kind = "error"

\* the causes of failure C13 names
InitFailureCause ==
  /\ req.handler = "init_doc"
  /\ \/ req.fetch # "ok"
     \/ UnknownFulfillment(req.fulfillment_id)
     \/ LET t == _find_connector_by_fulfillment_id(locations, req.fulfillment_id)
            ids == ConnAt(locations, t).tariff_ids
        IN \/ ids = <<>>
           \/ FetchedTariff(ConfirmTariff(TariffIdFromItem(req.item_id), ids)) = NoTariff

----------------------------------------------------------------------------
(* Session handlers: update_module.py, status_module.py, confirm.py *)

\* status strings, character by character (str.upper() is applied to them)
STOPPED == <<"S", "T", "O", "P", "P", "E", "D">>
STOP == <<"S", "T", "O", "P">>
ENDED == <<"E", "N", "D", "E", "D">>
COMPLETED == <<"C", "O", "M", "P", "L", "E", "T", "E", "D">>
ACTIVE == <<"A", "C", "T", "I", "V", "E">>
UPDATED == <<"U", "P", "D", "A", "T", "E", "D">>

UpperChar(c) ==
  CASE c = "a" -> "A" [] c = "c" -> "C" [] c = "d" -> "D" [] c = "e" -> "E"
    [] c = "i" -> "I" [] c = "n" -> "N" [] c = "o" -> "O" [] c = "p" -> "P"
    [] c = "s" -> "S" [] c = "t" -> "T" [] c = "u" -> "U" [] c = "v" -> "V"
    [] OTHER -> c

\* str.upper()
Upper(s) == [i \in 1..Len(s) |-> UpperChar(s[i])]

\* status in ["STOPPED", "STOP", "ENDED"]
IsStopStatus(status) == status \in {STOPPED, STOP, ENDED}

\* the update statuses of the requests; <<>> is a request without a status
UpdateStatuses ==
  {STOPPED, <<"s", "t", "o", "p", "p", "e", "d">>, <<"S", "t", "o", "p">>,
   <<"e", "n", "d", "e", "d">>, ACTIVE, <<"p", "a", "u", "s", "e", "d">>, <<>>}

\* order.id of the request; <<>> when the request has none
SessionIds == {<<"SESSION123">>, <<>>}

\* replies of OCPIClient.update_session: it raises, or returns a session
\* record. The mock client echoes the id and the status it was given.
NoReply == [raises |-> TRUE, id |-> <<>>, status |-> <<>>, updated_fields |-> <<>>]
Reply(id, status, updated_fields) ==
  [raises |-> FALSE, id |-> id, status |-> status, updated_fields |-> updated_fields]

\* update_data["status"] as sent to update_session: the stop handler
\* overwrites it with "STOPPED"
SentStatus(update_status) ==
  IF IsStopStatus(Upper(update_status)) THEN STOPPED ELSE update_status

UpdateReplies(session_id, update_status) ==
  LET sent == SentStatus(update_status) IN
  {NoReply}
  \cup {Reply(session_id, s, sent) :
          s \in {IF sent = <<>> THEN UPDATED ELSE sent, STOPPED, COMPLETED, ACTIVE}}

\* replies of get_session_status
StatusReplies(session_id) == {NoReply, Reply(session_id, ACTIVE, <<>>)}

\* replies of generate_cdr and of push_cdr
NoCdr == [raises |-> TRUE, id |-> <<>>, total_energy |-> 0]
CdrReplies == {NoCdr, [raises |-> FALSE, id |-> <<"CDR1">>, total_energy |-> 25]}
PushReplies ==
  {[raises |-> TRUE, status_code |-> 0]}
  \cup {[raises |-> FALSE, status_code |-> c] : c \in {1000, 3000}}

\* transform_ocpi_update_to_beckn_on_update; cdr is the order's "cdr" field
AbsentCdr == [status |-> "absent"]

OnUpdateOrder(ocpi_update_response, cdr) ==
  [id |-> ocpi_update_response.id,
   state |-> ocpi_update_response.status,
   updated_fields |-> ocpi_update_response.updated_fields,
   cdr |-> cdr]

\* the CDR is generated whatever status update_session answered with
CdrStepAnyStatus(generate_cdr, ocpi_update_response, cdr_data, cdr_push_response) ==
  IF ~generate_cdr
  THEN [cdr |-> AbsentCdr, calls |-> <<>>]
  ELSE IF cdr_data.raises
  THEN [cdr |-> [status |-> "FAILED", error |-> "generate_cdr"],
        calls |-> <<"generate_cdr">>]
  ELSE IF cdr_push_response.raises
  THEN [cdr |-> [status |-> "FAILED", error |-> "push_cdr"],
        calls |-> <<"generate_cdr", "push_cdr">>]
  ELSE [cdr |-> [status |-> "GENERATED", id |-> cdr_data.id,
                 push_status |-> IF cdr_push_response.status_code = 1000
                                 THEN "SUCCESS" ELSE "FAILED",
                 total_energy |-> cdr_data.total_energy],
        calls |-> <<"generate_cdr", "push_cdr">>]

\* a failed CDR is followed by a second update_session that reverts the stop
CdrStepCompensating(generate_cdr, ocpi_update_response, cdr_data, cdr_push_response) ==
  IF ~(generate_cdr /\ ocpi_update_response.status \in {STOPPED, COMPLETED})
  THEN [cdr |-> AbsentCdr, calls |-> <<>>]
  ELSE IF cdr_data.raises
  THEN [cdr |-> [status |-> "FAILED", error |-> "generate_cdr"],
        calls |-> <<"generate_cdr", "update_session">>]
  ELSE IF cdr_push_response.raises
  THEN [cdr |-> [status |-> "FAILED", error |-> "push_cdr"],
        calls |-> <<"generate_cdr", "push_cdr", "update_session">>]
  ELSE [cdr |-> [status |-> "GENERATED", id |-> cdr_data.id,
                 push_status |-> IF cdr_push_response.status_code = 1000
                                 THEN "SUCCESS" ELSE "FAILED",
                 total_energy |-> cdr_data.total_energy],
        calls |-> <<"generate_cdr", "push_cdr">>]

\* the push is attempted although generate_cdr raised
CdrStepPushAlways(generate_cdr, ocpi_update_response, cdr_data, cdr_push_response) ==
  IF ~(generate_cdr /\ ocpi_update_response.status \in {STOPPED, COMPLETED})
  THEN [cdr |-> AbsentCdr, calls |-> <<>>]
  ELSE IF cdr_data.raises
  THEN [cdr |-> [status |-> "FAILED", error |-> "generate_cdr"],
        calls |-> <<"generate_cdr", "push_cdr">>]
  ELSE IF cdr_push_response.raises
  THEN [cdr |-> [status |-> "FAILED", error |-> "push_cdr"],
        calls |-> <<"generate_cdr", "push_cdr">>]
  ELSE [cdr |-> [status |-> "GENERATED", id |-> cdr_data.id,
                 push_status |-> IF cdr_push_response.status_code = 1000
                                 THEN "SUCCESS" ELSE "FAILED",
                 total_energy |-> cdr_data.total_energy],
        calls |-> <<"generate_cdr", "push_cdr">>]

\* lines 66-97 of handle_stop_charging_session: the cdr field and the calls
CdrStep(generate_cdr, ocpi_update_response, cdr_data, cdr_push_response) ==
  IF ~(generate_cdr /\ ocpi_update_response.status \in {STOPPED, COMPLETED})
  THEN [cdr |-> AbsentCdr, calls |-> <<>>]
  ELSE IF cdr_data.raises
  THEN [cdr |-> [status |-> "FAILED", error |-> "generate_cdr"],
        calls |-> <<"generate_cdr">>]
  ELSE IF cdr_push_response.raises
  THEN [cdr |-> [status |-> "FAILED", error |-> "push_cdr"],
        calls |-> <<"generate_cdr", "push_cdr">>]
  ELSE [cdr |-> [status |-> "GENERATED", id |-> cdr_data.id,
                 push_status |-> IF cdr_push_response.status_code = 1000
                                 THEN "SUCCESS" ELSE "FAILED",
                 total_energy |-> cdr_data.total_energy],
        calls |-> <<"generate_cdr", "push_cdr">>]

handle_stop_charging_session(context, session_id, update_status, generate_cdr, session_data, ocpi_update_response, cdr_data, cdr_push_response) ==
  LET before == IF generate_cdr THEN <<"get_session_status">> ELSE <<>>
      step == CdrStep(generate_cdr, ocpi_update_response, cdr_data, cdr_push_response)
  IN IF ~IsStopStatus(Upper(update_status))
     THEN Raised("Update is not a stop charging request", <<>>)
     ELSE IF session_id = <<>>
     THEN Raised("Session ID not found in Beckn update request", <<>>)
     ELSE IF ocpi_update_response.raises
     THEN Raised("update_session", before \o <<"update_session">>)
     ELSE Returned(CopiedContext(context, "on_update"),
                   before \o <<"update_session">> \o step.calls,
                   OnUpdateOrder(ocpi_update_response, step.cdr))

handle_beckn_update_request(context, session_id, update_status, session_data, ocpi_update_response, cdr_data, cdr_push_response) ==
  IF IsStopStatus(Upper(update_status))
  THEN handle_stop_charging_session(context, session_id, update_status, TRUE,
                                    session_data, ocpi_update_response,
                                    cdr_data, cdr_push_response)
  ELSE IF session_id = <<>>
  THEN Raised("Session ID not found in Beckn update request", <<>>)
  ELSE IF ocpi_update_response.raises
  THEN Raised("update_session", <<"update_session">>)
  ELSE Returned(CopiedContext(context, "on_update"), <<"update_session">>,
                OnUpdateOrder(ocpi_update_response, AbsentCdr))

\* handle_beckn_status_request
handle_beckn_status_request(context, session_id, ocpi_status_response) ==
  IF session_id = <<>>
  THEN Raised("Session ID not found in Beckn status request", <<>>)
  ELSE IF ocpi_status_response.raises
  THEN Raised("get_session_status", <<"get_session_status">>)
  ELSE Returned(CopiedContext(context, "on_status"), <<"get_session_status">>,
                [id |-> ocpi_status_response.id,
                 state |-> ocpi_status_response.status])

\* confirm.py: handle_beckn_confirm_request
handle_beckn_confirm_request(context, session_id, ocpi_confirm_response) ==
  IF session_id = <<>>
  THEN Raised("Session ID not found in Beckn confirm request", <<>>)
  ELSE IF ocpi_confirm_response.raises
  THEN Raised("confirm_session", <<"confirm_session">>)
  ELSE Returned(CopiedContext(context, "on_confirm"), <<"confirm_session">>,
                [id |-> ocpi_confirm_response.id,
                 state |-> ocpi_confirm_response.status])

\* handle_beckn_cdr_request
handle_beckn_cdr_request(context, session_id, cdr_data, cdr_push_response) ==
  IF session_id = <<>>
  THEN Raised("Session ID not found in Beckn CDR request", <<>>)
  ELSE IF cdr_data.raises
  THEN Raised("generate_cdr", <<"generate_cdr">>)
  ELSE IF cdr_push_response.raises
  THEN Raised("push_cdr", <<"generate_cdr", "push_cdr">>)
  ELSE Returned(RegeneratedContext(context, "on_cdr"),
                <<"generate_cdr", "push_cdr">>,
                [id |-> session_id, state |-> "COMPLETED",
                 cdr_id |-> cdr_data.id,
                 billing_status |-> IF cdr_push_response.status_code = 1000
                                    THEN "COMPLETED" ELSE "PENDING"])

\* init_module.py: handle_beckn_select_request. The item id is read as
\* item_{location_id}_evse_{evse_uid}_conn_{connector_id}: parts 1, 3 and 5
\* of item_id.split("_"), ValueError when there are fewer.
handle_beckn_select_request(context, item_id, ocpi_session_response) ==
  LET parts == Split(item_id) IN
  IF Len(parts) < 6
  THEN Raised("Invalid item id format", <<>>)
  ELSE IF ocpi_session_response.raises
  THEN Raised("initiate_session", <<"initiate_session">>)
  ELSE Returned(CopiedContext(context, "on_select"), <<"initiate_session">>,
                [id |-> ocpi_session_response.id,
                 state |-> ocpi_session_response.status,
                 fulfillment_id |-> parts[2]])   \* the session's location_id

----------------------------------------------------------------------------
(* Search documents *)

\* where a search response keeps its lists: the successful transformation
\* puts locations, items and fulfillments in message.catalog.providers[0]
\* (lines 725-745), _create_empty_search_response and
\* _create_error_search_response put them in message.catalog itself next to
\* an explanatory descriptor (lines 765-783, 799-817)
CatalogKeys(kind) ==
  IF kind = "catalog" THEN {"providers"}
  ELSE {"descriptor", "locations", "items", "fulfillments", "categories"}

ProviderKeys(kind) ==
  IF kind = "catalog"
  THEN {"id", "descriptor", "locations", "items", "fulfillments", "categories"}
  ELSE {}

SearchBody(response) ==
  [kind |-> response.kind,
   catalog_keys |-> CatalogKeys(response.kind),
   provider_keys |-> ProviderKeys(response.kind),
   locations |-> response.locations,
   items |-> response.items,
   fulfillments |-> response.fulfillments]

\* BecknOCPIBridge.process_search_request on a request document, with the
\* behaviour of get_all_locations and get_all_tariffs. The tariffs are
\* fetched only when some location is within the radius.
SearchDocument(context_in, gps, search_radius, fetch) ==
  LET within ==
        IF gps.kind = "ok"
        THEN LocationFilter_filter_locations_by_proximity(
               locations, gps.lat, gps.lon, search_radius)
        ELSE <<>>
      calls ==
        IF gps.kind # "ok" THEN <<>>
        ELSE IF fetch = "locations_raise" \/ within = <<>>
                \/ ~TARIFF_DECOMPOSITION_ENABLED
        THEN <<"get_all_locations">>
        ELSE <<"get_all_locations", "get_all_tariffs">>
      raises ==
        /\ gps.kind = "ok"
        /\ \/ fetch = "locations_raise"
           \/ fetch = "tariffs_raise" /\ Len(calls) = 2
  IN Returned(RegeneratedContext(context_in, "on_search"), calls,
              SearchBody(IF raises THEN _create_error_search_response
                         ELSE process_search_request(
                                gps, search_radius, locations, tariffs,
                                TARIFF_DECOMPOSITION_ENABLED)))

\* search_module.process_beckn_search_request. Line 47 calls
\* bridge.transform_beckn_to_ocpi_query, which BecknOCPIBridge does not
\* define: the AttributeError is caught at line 63 and the handler returns
\* the document of lines 80-93, a context and an "error" object, before any
\* client call.
process_beckn_search_request(context_in, gps) ==
  Returned(RegeneratedContext(context_in, "on_search"), <<>>,
           [kind |-> "error_object",
            catalog_keys |-> {},
            provider_keys |-> {},
            error |-> [type |-> "INTERNAL_ERROR", code |-> "500",
                       path |-> "process_search"]])

\* the search requests: also one from a point 500 km away
FlowGpsValues == GpsValues \cup {[kind |-> "ok", lat |-> 501001, lon |-> 0]}

SearchDoc ==
  \E context \in Contexts("search"), gps \in FlowGpsValues, radius \in Radii,
     fetch \in FetchOutcomes :
    /\ Idle
    /\ req' = [handler |-> "search_doc", context |-> context, gps |-> gps,
               radius |-> radius, fetch |-> fetch]
    /\ resp' = SearchDocument(context, gps, radius, fetch)
    /\ UNCHANGED <<locations, tariffs, TARIFF_DECOMPOSITION_ENABLED>>

SearchEntry ==
  \E context \in Contexts("search"), gps \in GpsValues :
    /\ Idle
    /\ req' = [handler |-> "search_entry", context |-> context, gps |-> gps]
    /\ resp' = process_beckn_search_request(context, gps)
    /\ UNCHANGED <<locations, tariffs, TARIFF_DECOMPOSITION_ENABLED>>

----------------------------------------------------------------------------
(* Select and confirm documents *)

\* the connectors whose fulfillment id is the requested one, in scan order
SelectHits(ocpi_locations, fulfillment_id) ==
  LET ts == Triples(ocpi_locations) IN
  {i \in 1..Len(ts) :
     FulfillmentId(EvseAt(ocpi_locations, ts[i]),
                   ConnAt(ocpi_locations, ts[i])) = fulfillment_id}

\* the scan goes on after a match: one fetch per matching connector that
\* has tariff ids
SelectTariffFetchesNoBreak(ocpi_locations, fulfillment_id) ==
  LET ts == Triples(ocpi_locations)
      fetching == {i \in SelectHits(ocpi_locations, fulfillment_id) :
                     ConnAt(ocpi_locations, ts[i]).tariff_ids # <<>>}
  IN [k \in 1..Cardinality(fetching) |-> "get_all_tariffs"]

\* lines 1776-1846: the get_all_tariffs calls of the scan. The fetch is in
\* the body of the innermost loop, under the match; the three loops are
\* left at the first match (lines 1842-1846).
SelectTariffFetches(ocpi_locations, fulfillment_id) ==
  LET t == SelectMatch(ocpi_locations, fulfillment_id) IN
  IF t # NoTriple /\ ConnAt(ocpi_locations, t).tariff_ids # <<>>
  THEN <<"get_all_tariffs">>
  ELSE <<>>

\* BecknOCPIBridge.process_select_request on a request document. A raising
\* get_all_locations is caught (line 1764) and leaves no location to scan;
\* a raising get_all_tariffs is caught (line 1836) and leaves no price.
SelectDocument(context_in, item_id, fulfillment_id, selected_value, fetch) ==
  LET ocpi_locations == IF fetch = "locations_raise" THEN <<>> ELSE locations
      all_tariffs == IF fetch = "tariffs_raise" THEN <<>> ELSE tariffs
  IN Returned(RegeneratedContext(context_in, "on_select"),
              <<"get_all_locations">>
              \o SelectTariffFetches(ocpi_locations, fulfillment_id),
              process_select_request(item_id, fulfillment_id, selected_value,
                                     ocpi_locations, all_tariffs))

\* payment records and quotes of the confirm requests
ConfirmPayments ==
  {<<>>, <<[amount |-> 16, status |-> "NOT-PAID"]>>,
   <<[amount |-> 16, status |-> "PAID"]>>}

ConfirmQuotes == {[value |-> NoValue], [value |-> Value(16)]}

\* BecknOCPIBridge.process_confirm_request: the order of the response, or
\* the empty order of the except clause when get_all_locations raises. The
\* matched connector only fills descriptive fields (the available power, 0
\* without a match); quote_in and payments_in are written to the order as
\* they came (lines 1596-1597); the order id is transaction_id[:24].
ConfirmDocument(context_in, item_id, fulfillment_id, payments_in, quote_in, fetch) ==
  LET t == _find_connector_by_fulfillment_id(locations, fulfillment_id) IN
  Returned(RegeneratedContext(context_in, "on_confirm"),
           <<"get_all_locations">>,
           IF fetch = "locations_raise"
           THEN [kind |-> "error", id |-> "", items |-> <<>>,
                 fulfillments |-> <<>>, quote |-> [value |-> NoValue],
                 payments |-> <<>>, matched |-> NoTriple]
           ELSE [kind |-> "ok", id |-> context_in.transaction_id,
                 items |-> <<[id |-> item_id,
                              available |->
                                IF t = NoTriple THEN 0
                                ELSE ConnAt(locations, t).max_electric_power]>>,
                 fulfillments |-> <<[id |-> fulfillment_id]>>,
                 quote |-> quote_in,
                 payments |-> payments_in,
                 matched |-> t])

SelectDoc ==
  \E context \in Contexts("select"), item_id \in ItemIds,
     fulfillment_id \in FulfillmentIds, selected_value \in SelectedValues,
     fetch \in FetchOutcomes :
    /\ Idle
    /\ req' = [handler |-> "select_doc", context |-> context,
               item_id |-> item_id, fulfillment_id |-> fulfillment_id,
               selected_value |-> selected_value, fetch |-> fetch]
    /\ resp' = SelectDocument(context, item_id, fulfillment_id,
                              selected_value, fetch)
    /\ UNCHANGED <<locations, tariffs, TARIFF_DECOMPOSITION_ENABLED>>

ConfirmDoc ==
  \E context \in Contexts("confirm"),
     item_id \in {<<>>, TariffItemId(T, Str(50))},
     fulfillment_id \in FulfillmentIds, payments_in \in ConfirmPayments,
     quote_in \in ConfirmQuotes, fetch \in {"ok", "locations_raise"} :
    /\ Idle
    /\ req' = [handler |-> "confirm_doc", context |-> context,
               item_id |-> item_id, fulfillment_id |-> fulfillment_id,
               payments |-> payments_in, quote |-> quote_in, fetch |-> fetch]
    /\ resp' = ConfirmDocument(context, item_id, fulfillment_id, payments_in,
                               quote_in, fetch)
    /\ UNCHANGED <<locations, tariffs, TARIFF_DECOMPOSITION_ENABLED>>

----------------------------------------------------------------------------
(* Session handler calls *)

\* item ids of the session-initiation requests of init_module.py
SessionItemIds ==
  {<<"item", US, "L1", US, "evse", US, "E1", US, "conn", US, "1">>,
   <<"T", US, "50">>, <<>>}

\* replies of initiate_session and of confirm_session
SessionReplies(session_id) ==
  {NoReply, Reply(session_id, <<"P", "E", "N", "D", "I", "N", "G">>, <<>>)}

ConfirmReplies(session_id) == {NoReply, Reply(session_id, ACTIVE, <<>>)}

Update ==
  \E context \in Contexts("update"), session_id \in SessionIds,
     update_status \in UpdateStatuses :
    \E session_data \in StatusReplies(session_id),
       ocpi_update_response \in UpdateReplies(session_id, update_status),
       cdr_data \in CdrReplies, cdr_push_response \in PushReplies :
      /\ Idle
      /\ req' = [handler |-> "update", context |-> context,
                 session_id |-> session_id, update_status |-> update_status,
                 generate_cdr |-> TRUE, session_data |-> session_data,
                 ocpi_update_response |-> ocpi_update_response,
                 cdr_data |-> cdr_data, cdr_push_response |-> cdr_push_response]
      /\ resp' = handle_beckn_update_request(
                   context, session_id, update_status, session_data,
                   ocpi_update_response, cdr_data, cdr_push_response)
      /\ UNCHANGED <<locations, tariffs, TARIFF_DECOMPOSITION_ENABLED>>

StopSession ==
  \E context \in Contexts("update"), session_id \in SessionIds,
     update_status \in UpdateStatuses, generate_cdr \in BOOLEAN :
    \E session_data \in StatusReplies(session_id),
       ocpi_update_response \in UpdateReplies(session_id, update_status),
       cdr_data \in CdrReplies, cdr_push_response \in PushReplies :
      /\ Idle
      /\ req' = [handler |-> "stop", context |-> context,
                 session_id |-> session_id, update_status |-> update_status,
                 generate_cdr |-> generate_cdr, session_data |-> session_data,
                 ocpi_update_response |-> ocpi_update_response,
                 cdr_data |-> cdr_data, cdr_push_response |-> cdr_push_response]
      /\ resp' = handle_stop_charging_session(
                   context, session_id, update_status, generate_cdr,
                   session_data, ocpi_update_response, cdr_data,
                   cdr_push_response)
      /\ UNCHANGED <<locations, tariffs, TARIFF_DECOMPOSITION_ENABLED>>

Status ==
  \E context \in Contexts("status"), session_id \in SessionIds :
    \E ocpi_status_response \in StatusReplies(session_id) :
      /\ Idle
      /\ req' = [handler |-> "status", context |-> context,
                 session_id |-> session_id,
                 ocpi_status_response |-> ocpi_status_response]
      /\ resp' = handle_beckn_status_request(context, session_id,
                                             ocpi_status_response)
      /\ UNCHANGED <<locations, tariffs, TARIFF_DECOMPOSITION_ENABLED>>

ConfirmSession ==
  \E context \in Contexts("confirm"), session_id \in SessionIds :
    \E ocpi_confirm_response \in ConfirmReplies(session_id) :
      /\ Idle
      /\ req' = [handler |-> "confirm_session", context |-> context,
                 session_id |-> session_id,
                 ocpi_confirm_response |-> ocpi_confirm_response]
      /\ resp' = handle_beckn_confirm_request(context, session_id,
                                              ocpi_confirm_response)
      /\ UNCHANGED <<locations, tariffs, TARIFF_DECOMPOSITION_ENABLED>>

Cdr ==
  \E context \in Contexts("cdr"), session_id \in SessionIds,
     cdr_data \in CdrReplies, cdr_push_response \in PushReplies :
    /\ Idle
    /\ req' = [handler |-> "cdr", context |-> context,
               session_id |-> session_id, cdr_data |-> cdr_data,
               cdr_push_response |-> cdr_push_response]
    /\ resp' = handle_beckn_cdr_request(context, session_id, cdr_data,
                                        cdr_push_response)
    /\ UNCHANGED <<locations, tariffs, TARIFF_DECOMPOSITION_ENABLED>>

SelectSession ==
  \E context \in Contexts("select"), item_id \in SessionItemIds :
    \E ocpi_session_response \in SessionReplies(<<"SESSION123">>) :
      /\ Idle
      /\ req' = [handler |-> "select_session", context |-> context,
                 item_id |-> item_id,
                 ocpi_session_response |-> ocpi_session_response]
      /\ resp' = handle_beckn_select_request(context, item_id,
                                             ocpi_session_response)
      /\ UNCHANGED <<locations, tariffs, TARIFF_DECOMPOSITION_ENABLED>>

----------------------------------------------------------------------------
(* create_confirm_request_from_on_init *)

MaxItems == 2

\* the items of an on_init document: id and quantity.selected.measure, whose
\* value and unit may each be missing (None: NoValue, <<>>)
OnInitItems ==
  {[id |-> id, value |-> value, unit |-> unit] :
     id \in {TariffItemId(T, Str(50)), TariffItemId(U, Str(50))},
     value \in SelectedValues, unit \in {<<>>, <<"kWh">>}}

OnInitItemLists == UNION {[1..n -> OnInitItems] : n \in 0..MaxItems}

OnInitDocuments ==
  {[context |-> RegeneratedContext(context, "on_init"), items |-> items,
    payments |-> payments] :
     context \in Contexts("init"), items \in OnInitItemLists,
     payments \in {<<>>, <<[amount |-> 16, status |-> "NOT-PAID"]>>}}

\* the on_init document of a response of process_init_request: lines
\* 1284-1303 write the selected measure with the unit "kWh" when the request
\* names none
OnInitDocumentOf(response) ==
  [context |-> response.context,
   items |-> [i \in 1..Len(response.body.items) |->
                [id |-> response.body.items[i].id,
                 value |-> Value(response.body.items[i].selected),
                 unit |-> <<"kWh">>]],
   payments |-> [i \in 1..Len(response.body.payments) |->
                   [amount |-> response.body.payments[i].amount,
                    status |-> response.body.payments[i].status]]]

\* the items in reverse order
ConfirmItemsReversed(items_in) ==
  [i \in 1..Len(items_in) |->
     [id |-> items_in[Len(items_in) + 1 - i].id,
      value |-> items_in[Len(items_in) + 1 - i].value,
      unit |-> items_in[Len(items_in) + 1 - i].unit]]

\* lines 1055-1069: confirm_items
ConfirmItems(items_in) ==
  [i \in 1..Len(items_in) |->
     [id |-> items_in[i].id,
      value |-> items_in[i].value,
      unit |-> items_in[i].unit]]

create_confirm_request_from_on_init(on_init_response) ==
  Returned([transaction_id |-> on_init_response.context.transaction_id,
            message_id |-> Uuid4,
            action |-> "confirm"],
           <<>>,
           [items |-> ConfirmItems(on_init_response.items),
            payments |-> [i \in 1..Len(on_init_response.payments) |->
                            [amount |-> on_init_response.payments[i].amount,
                             status |-> "PAID"]]])

\* the buyer builds the confirm request from an on_init document
CreateConfirm ==
  \E on_init_response \in OnInitDocuments :
    /\ Idle
    /\ req' = [handler |-> "create_confirm", on_init |-> on_init_response]
    /\ resp' = create_confirm_request_from_on_init(on_init_response)
    /\ UNCHANGED <<locations, tariffs, TARIFF_DECOMPOSITION_ENABLED>>

\* the buyer builds the confirm request from the on_init response it has
\* just been handed
ConfirmFromInit ==
  /\ req.handler = "init_doc"
  /\ req' = [handler |-> "create_confirm", on_init |-> OnInitDocumentOf(resp)]
  /\ resp' = create_confirm_request_from_on_init(OnInitDocumentOf(resp))
  /\ UNCHANGED <<locations, tariffs, TARIFF_DECOMPOSITION_ENABLED>>

----------------------------------------------------------------------------
(* The state machine of the request and response documents *)

FlowNext ==
  \/ SearchDoc \/ SearchEntry \/ SelectDoc \/ SelectSession \/ InitDoc
  \/ ConfirmDoc \/ ConfirmSession \/ Status \/ Update \/ StopSession \/ Cdr
  \/ CreateConfirm \/ ConfirmFromInit \/ Deliver

FlowSpec == FlowInit /\ [][FlowNext]_vars

----------------------------------------------------------------------------
(* Claims on the request and response documents *)

\* the on_* action that answers each handler
OnAction(handler) ==
  CASE handler \in {"search_doc", "search_entry"} -> "on_search"
    [] handler \in {"select_doc", "select_session"} -> "on_select"
    [] handler = "init_doc" -> "on_init"
    [] handler \in {"confirm_doc", "confirm_session"} -> "on_confirm"
    [] handler = "status" -> "on_status"
    [] handler \in {"update", "stop"} -> "on_update"
    [] handler = "cdr" -> "on_cdr"
    [] OTHER -> "none"

Handled == OnAction(req.handler) # "none"

\* C14: every flow-step handler (search, select, init, confirm, status,
\* update/stop, cdr), for every request and every behaviour of its
\* collaborators, returns a response document whose context.action is the
\* matching on_* action; no handler lets an exception escape.
C14_EveryHandlerAnswers ==
  Handled => ~resp.raised /\ resp.context.action = OnAction(req.handler)


SearchHandled == req.handler \in {"search_doc", "search_entry"}

\* the request has no location criteria, no GPS value or a malformed GPS
\* string, or get_all_locations raises while the search is processed
SearchFailure ==
  /\ SearchHandled
  /\ \/ req.gps.kind # "ok"
     \/ req.handler = "search_doc" /\ req.fetch = "locations_raise"

\* C15: when a search request has no location criteria, no GPS value or a
\* malformed GPS string, or an internal exception occurs, the search entry
\* point returns an on_search document carrying a catalog with an
\* explanatory descriptor and empty locations, items and fulfillments, and
\* never a document carrying an error object in place of the catalog.
C15_SearchFailureKeepsCatalog ==
  SearchFailure =>
    /\ ~resp.raised
    /\ resp.context.action = "on_search"
    /\ resp.body.kind # "error_object"
    /\ "descriptor" \in resp.body.catalog_keys
    /\ resp.body.locations = <<>>
    /\ resp.body.items = <<>>
    /\ resp.body.fulfillments = <<>>


\* the search matched no location: the inventory is empty, or no location
\* is within the radius
SearchMatchedNothing ==
  /\ req.handler = "search_doc"
  /\ req.gps.kind = "ok"
  /\ req.fetch = "ok"
  /\ LocationFilter_filter_locations_by_proximity(
       locations, req.gps.lat, req.gps.lon, req.radius) = <<>>

\* C16: a search that matches no location returns a document with
\* context.action = "on_search" whose catalog has the key structure of the
\* catalog of a successful search, the providers list holding locations,
\* items and fulfillments, with the three lists present and empty rather
\* than omitted or moved.
C16_EmptyCatalogKeepsShape ==
  SearchMatchedNothing =>
    /\ resp.context.action = "on_search"
    /\ resp.body.catalog_keys = CatalogKeys("catalog")
    /\ resp.body.provider_keys = ProviderKeys("catalog")
    /\ resp.body.locations = <<>>
    /\ resp.body.items = <<>>
    /\ resp.body.fulfillments = <<>>



\* C17: for every handler and every request, the response context carries
\* the request's transaction_id unchanged and a newly generated message_id,
\* never the request's message_id, on the success path and on the failure
\* path, for on_search, on_select, on_init, on_confirm, on_status, on_update
\* and on_cdr alike.
C17_ContextKeepsTransactionNewMessage ==
  (Handled /\ ~resp.raised) =>
    /\ resp.context.transaction_id = req.context.transaction_id
    /\ resp.context.message_id # req.context.message_id


\* the stop statuses among the update statuses, in every spelling
StopSpellings ==
  {STOPPED, <<"s", "t", "o", "p", "p", "e", "d">>, <<"S", "t", "o", "p">>,
   <<"e", "n", "d", "e", "d">>}

IsCdrCall(c) == c \in {"generate_cdr", "push_cdr"}

\* the calls of CDR generation and CDR push among the calls made
CdrCalls == SelectSeq(resp.calls, IsCdrCall)

\* the cdr summary of a generated and pushed CDR
CdrSummary(cdr_data, cdr_push_response) ==
  [status |-> "GENERATED", id |-> cdr_data.id,
   push_status |-> IF cdr_push_response.status_code = 1000
                   THEN "SUCCESS" ELSE "FAILED",
   total_energy |-> cdr_data.total_energy]

\* C18 as stated: when handle_beckn_update_request receives a stop status
\* (STOPPED, STOP or ENDED, in any letter case) and answers, it has called
\* CDR generation and then CDR push after the session update, and the order
\* carries a cdr summary with the CDR id, the push success or failure and the
\* totals; when the status is not a stop status, neither is called and the
\* response has no cdr field.
C18_StopAlwaysCarriesCdr ==
  (req.handler = "update" /\ ~resp.raised) =>
    IF req.update_status \in StopSpellings
    THEN /\ resp.calls = <<"get_session_status", "update_session",
                           "generate_cdr", "push_cdr">>
         /\ resp.body.cdr = CdrSummary(req.cdr_data, req.cdr_push_response)
    ELSE /\ CdrCalls = <<>>
         /\ resp.body.cdr = AbsentCdr

\* update_session has answered a stop request with a stopped session
StopReached ==
  /\ req.update_status \in StopSpellings
  /\ req.session_id # <<>>
  /\ ~req.ocpi_update_response.raises
  /\ req.ocpi_update_response.status \in {STOPPED, COMPLETED}

\* C18, amended: for a stop status (STOPPED, STOP or ENDED, in any letter
\* case) CDR generation is called only once update_session has returned a
\* session whose status is STOPPED or COMPLETED, directly after it, and CDR
\* push follows when generation returned. The returned on_update order then
\* carries the cdr summary (id, status GENERATED, push success or failure,
\* totals) when both calls returned and cdr = {status: FAILED, error} when
\* one of them raised; it has no cdr field when update_session answered with
\* another status. When the status is not a stop status, neither CDR
\* generation nor CDR push is called and the response has no cdr field.
C18_StopRunsCdrAfterStoppedUpdate ==
  req.handler = "update" =>
    /\ CdrCalls = IF ~StopReached THEN <<>>
                  ELSE IF req.cdr_data.raises THEN <<"generate_cdr">>
                  ELSE <<"generate_cdr", "push_cdr">>
    /\ StopReached =>
         resp.calls = <<"get_session_status", "update_session">> \o CdrCalls
    /\ ~resp.raised =>
         resp.body.cdr =
           IF ~StopReached THEN AbsentCdr
           ELSE IF req.cdr_data.raises
           THEN [status |-> "FAILED", error |-> "generate_cdr"]
           ELSE IF req.cdr_push_response.raises
           THEN [status |-> "FAILED", error |-> "push_cdr"]
           ELSE CdrSummary(req.cdr_data, req.cdr_push_response)

\* a lower-case "stopped" update whose CDR was generated and pushed after
\* the session update
C18_Witness ==
  /\ req.handler = "update"
  /\ req.update_status = <<"s", "t", "o", "p", "p", "e", "d">>
  /\ ~resp.raised
  /\ resp.calls = <<"get_session_status", "update_session",
                    "generate_cdr", "push_cdr">>
  /\ resp.body.cdr.status = "GENERATED"
  /\ resp.body.cdr.id = <<"CDR1">>
  /\ resp.body.cdr.push_status = "SUCCESS"


IsUpdateCall(c) == c = "update_session"

\* CDR generation or CDR push raised after update_session had answered the
\* stop with a stopped session
CdrRaisedAfterUpdate ==
  /\ req.handler \in {"stop", "update"}
  /\ req.generate_cdr
  /\ StopReached
  /\ req.cdr_data.raises \/ req.cdr_push_response.raises

\* C19: in handle_stop_charging_session, if CDR generation or CDR push
\* raises after the session update succeeded, the handler still returns the
\* on_update response built from the update result (same order id, state and
\* updated fields) with order.cdr = {status: FAILED, error}; update_session
\* is called once, no call follows the failed CDR call, and the exception
\* does not propagate.
C19_CdrFailureKeepsUpdateResult ==
  CdrRaisedAfterUpdate =>
    /\ ~resp.raised
    /\ resp.context.action = "on_update"
    /\ resp.body.id = req.ocpi_update_response.id
    /\ resp.body.state = req.ocpi_update_response.status
    /\ resp.body.updated_fields = req.ocpi_update_response.updated_fields
    /\ resp.body.cdr.status = "FAILED"
    /\ resp.body.cdr.error =
         (IF req.cdr_data.raises THEN "generate_cdr" ELSE "push_cdr")
    /\ Len(SelectSeq(resp.calls, IsUpdateCall)) = 1
    /\ resp.calls =
         <<"get_session_status", "update_session">>
         \o (IF req.cdr_data.raises THEN <<"generate_cdr">>
             ELSE <<"generate_cdr", "push_cdr">>)

\* the stop handler answered although push_cdr raised on a generated CDR
C19_Witness ==
  /\ req.handler = "stop"
  /\ CdrRaisedAfterUpdate
  /\ ~req.cdr_data.raises
  /\ ~resp.raised
  /\ resp.body.cdr.status = "FAILED"
  /\ resp.body.state = STOPPED
  /\ resp.calls[Len(resp.calls)] = "push_cdr"


----------------------------------------------------------------------------
(* Claims on confirm, the tariff flag and the calls made *)

ConfirmedOk == req.handler = "confirm_doc" /\ resp.body.kind = "ok"

\* C21: for every confirm request processed successfully by
\* process_confirm_request, every payment record in the on_confirm order has
\* status PAID whatever status the request's records carried, the order id is
\* derived from the request's transaction id, a fulfillment id matching no
\* connector does not make confirm fail, and the quote is returned unchanged.
C21_ConfirmMarksPaid ==
  /\ ConfirmedOk =>
       /\ \A i \in 1..Len(resp.body.payments) :
            resp.body.payments[i].status = "PAID"
       /\ resp.body.id = req.context.transaction_id
       /\ resp.body.quote = req.quote
  /\ (req.handler = "confirm_doc" /\ req.fetch = "ok") => resp.body.kind = "ok"


PricingHandled == req.handler \in {"search_doc", "select_doc", "init_doc"}

\* C22: when the tariff-decomposition flag is disabled, no handler (search,
\* select, init) fetches tariffs or computes a price from a tariff: priced
\* entries carry a zero price and embed no tariff object; when the flag is
\* enabled, every search item with a resolved tariff embeds the tariff
\* object.
C22_FlagDisabledMeansNoTariffUse ==
  /\ (PricingHandled /\ ~TARIFF_DECOMPOSITION_ENABLED) =>
       /\ "get_all_tariffs" \notin Range(resp.calls)
       /\ \A i \in 1..Len(resp.body.items) :
            IF req.handler = "select_doc"
            THEN resp.body.items[i].price.value \in {NoValue, Value(0)}
            ELSE /\ resp.body.items[i].price.value = 0
                 /\ req.handler = "search_doc" =>
                      resp.body.items[i].price.tariff_data = NoTariff
  /\ (req.handler = "search_doc" /\ TARIFF_DECOMPOSITION_ENABLED) =>
       \A i \in 1..Len(resp.body.items) :
         resp.body.items[i].price.tariff_id # <<>> =>
           resp.body.items[i].price.tariff_data
             = FetchedTariff(resp.body.items[i].price.tariff_id)


\* how many times a call appears among the calls of the response
CallsOf(names) == Cardinality({i \in 1..Len(resp.calls) : resp.calls[i] \in names})

SessionCalls ==
  {"initiate_session", "confirm_session", "get_session_status", "update_session"}

\* C23: during one invocation of any handler, fetch-all-locations is called
\* at most once, fetch-all-tariffs is called at most once, and at most two
\* session-collaborator calls are made, for every inventory (including one
\* where several connectors share the requested fulfillment id) and every
\* request.
C23_FetchesAtMostOnce ==
  Handled =>
    /\ CallsOf({"get_all_locations"}) <= 1
    /\ CallsOf({"get_all_tariffs"}) <= 1
    /\ CallsOf(SessionCalls) <= 2

\* select on the inventory where two connectors share the fulfillment id:
\* both are priced by tariff T, and the tariffs were fetched once
C23_Witness ==
  /\ req.handler = "select_doc"
  /\ locations = SharedFidInventory
  /\ Cardinality(SelectHits(locations, req.fulfillment_id)) = 2
  /\ req.fetch = "ok"
  /\ resp.calls = <<"get_all_locations", "get_all_tariffs">>
  /\ resp.body.kind = "ok"


----------------------------------------------------------------------------
(* Sequences of session operations on the mock client (mock_mode=True) *)

MaxOps == 3

PENDING == <<"P", "E", "N", "D", "I", "N", "G">>

TheSession == <<"SESSION123">>

\* OCPIClient in mock mode, lines 459-473, 494-501, 514-524, 537-545: the
\* replies are built from the arguments alone, the client keeps no session
initiate_session(location_id) == Reply(TheSession, PENDING, <<>>)
confirm_session(session_id) == Reply(session_id, ACTIVE, <<>>)
get_session_status(session_id) == Reply(session_id, ACTIVE, <<>>)
update_session(session_id, status) ==
  Reply(session_id, IF status = <<>> THEN UPDATED ELSE status, status)

\* _generate_mock_cdr and push_cdr in mock mode
MockCdr == [raises |-> FALSE, id |-> <<"CDR1">>, total_energy |-> 25]
MockPush == [raises |-> FALSE, status_code |-> 1000]

\* the operations on the session so far are in req.ops, the order states
\* the handlers reported in resp.reported
SessionInit ==
  /\ locations = <<>>
  /\ tariffs = <<>>
  /\ TARIFF_DECOMPOSITION_ENABLED = TRUE
  /\ req = [handler |-> "session", ops |-> <<>>]
  /\ resp = [action |-> "session", reported |-> <<>>]

\* the session after a handler has answered
Reported(op, document) ==
  [ops |-> Append(req.ops, op),
   reported |-> Append(resp.reported, document.body.state)]

SessionContext(action) == RequestContext("tx1", "m1", action)

InitiateOp ==
  LET document ==
        handle_beckn_select_request(
          SessionContext("select"),
          <<"item", US, "L1", US, "evse", US, "E1", US, "conn", US, "1">>,
          initiate_session(<<"L1">>))
  IN /\ Len(req.ops) < MaxOps
     /\ ~document.raised
     /\ req' = [req EXCEPT !.ops = Reported("initiate", document).ops]
     /\ resp' = [resp EXCEPT !.reported = Reported("initiate", document).reported]
     /\ UNCHANGED <<locations, tariffs, TARIFF_DECOMPOSITION_ENABLED>>

ConfirmOp ==
  LET document ==
        handle_beckn_confirm_request(SessionContext("confirm"), TheSession,
                                     confirm_session(TheSession))
  IN /\ Len(req.ops) < MaxOps
     /\ ~document.raised
     /\ req' = [req EXCEPT !.ops = Reported("confirm", document).ops]
     /\ resp' = [resp EXCEPT !.reported = Reported("confirm", document).reported]
     /\ UNCHANGED <<locations, tariffs, TARIFF_DECOMPOSITION_ENABLED>>

StatusOp ==
  LET document ==
        handle_beckn_status_request(SessionContext("status"), TheSession,
                                    get_session_status(TheSession))
  IN /\ Len(req.ops) < MaxOps
     /\ ~document.raised
     /\ req' = [req EXCEPT !.ops = Reported("status", document).ops]
     /\ resp' = [resp EXCEPT !.reported = Reported("status", document).reported]
     /\ UNCHANGED <<locations, tariffs, TARIFF_DECOMPOSITION_ENABLED>>

UpdateOp ==
  \E update_status \in UpdateStatuses :
    LET document ==
          handle_beckn_update_request(
            SessionContext("update"), TheSession, update_status,
            get_session_status(TheSession),
            update_session(TheSession, SentStatus(update_status)),
            MockCdr, MockPush)
    IN /\ Len(req.ops) < MaxOps
       /\ ~document.raised
       /\ req' = [req EXCEPT !.ops = Reported("update", document).ops]
       /\ resp' = [resp EXCEPT !.reported = Reported("update", document).reported]
       /\ UNCHANGED <<locations, tariffs, TARIFF_DECOMPOSITION_ENABLED>>

SessionNext == InitiateOp \/ ConfirmOp \/ StatusOp \/ UpdateOp

SessionSpec == SessionInit /\ [][SessionNext]_vars

\* the place of a status on PENDING -> ACTIVE -> COMPLETED/STOPPED
Rank(status) ==
  CASE status = PENDING -> 1
    [] status = ACTIVE -> 2
    [] status \in {COMPLETED, STOPPED} -> 3
    [] OTHER -> 0

\* C24: over every sequence of session operations issued through the
\* handlers (initiate, confirm, get-status, update) on one session id, the
\* session status reported only moves forward along PENDING -> ACTIVE ->
\* COMPLETED/STOPPED: it never returns to an earlier state, and a session is
\* never reported ACTIVE without having been initiated as PENDING first.
C24_StatusMovesForward ==
  \A j \in 1..Len(resp.reported) :
    /\ \A i \in 1..(j - 1) :
         (Rank(resp.reported[i]) > 0 /\ Rank(resp.reported[j]) > 0)
           => Rank(resp.reported[i]) <= Rank(resp.reported[j])
    /\ resp.reported[j] = ACTIVE =>
         \E i \in 1..(j - 1) : resp.reported[i] = PENDING

----------------------------------------------------------------------------
(* Two search invocations interleaved on one bridge and one client *)

\* the bridge's ocpi_client field: None, the client handed to the
\* constructor, or the client _ensure_ocpi_client built from the environment
NoClient == "none"
InjectedClient == "injected"
EnvClient == "env"

\* two locations 1001 m and 2504 m north of (0,0), and the same with a
\* third one out of every radius
ConcInventories ==
  {[i \in 1..Len(cs) |->
      Location(i, cs[i],
               <<[uid |-> <<"e", ToString(i)>>,
                  connectors |-> <<Connector(<<"1">>, <<T>>, 50)>>]>>)]
   : cs \in {<<Coords(1001), Coords(2504)>>,
             <<Coords(1001), Coords(2504), Coords(15001)>>}}

ConcRequests ==
  {[gps |-> g, radius |-> r] :
     g \in {[kind |-> "ok", lat |-> 0, lon |-> 0],
            [kind |-> "ok", lat |-> 2002, lon |-> 0],
            [kind |-> "no_gps", lat |-> 0, lon |-> 0]},
     r \in {Km(5), Km(10)}}

Invocations == {1, 2}

\* the records one invocation holds after a filter wrote distance_km on
\* them, were every invocation handed the same record objects: the write
\* shows in the lists of the other invocations
AnnotateShared(data, i, written) ==
  [k \in DOMAIN data |->
     IF k = i THEN written
     ELSE [n \in 1..Len(data[k]) |->
             IF \E m \in 1..Len(written) : written[m].id = data[k][n].id
             THEN [data[k][n] EXCEPT !.distance_km =
                     written[CHOOSE m \in 1..Len(written) :
                               written[m].id = data[k][n].id].distance_km]
             ELSE data[k][n]]]

\* get_all_locations builds its list from the HTTP response of this call:
\* the records an invocation filters are its own, and the write of
\* distance_km shows in no other invocation's list
AnnotateOwn(data, i, written) ==
  [data EXCEPT ![i] = written]

ConcInit ==
  /\ locations \in ConcInventories
  /\ tariffs = PlainTariffs
  /\ TARIFF_DECOMPOSITION_ENABLED = TRUE
  /\ \E client \in {NoClient, InjectedClient}, r1 \in ConcRequests, r2 \in ConcRequests :
       /\ r1 # r2
       /\ req = [handler |-> "concurrent", ocpi_client |-> client,
                 request |-> <<r1, r2>>,
                 pc |-> <<"start", "start">>,
                 data |-> <<(<<>>), (<<>>)>>]
  /\ resp = [action |-> "concurrent",
             out |-> <<_create_empty_search_response, _create_empty_search_response>>]

\* _ensure_ocpi_client: "if not self.ocpi_client"
EnsureCheck ==
  \E i \in Invocations :
    /\ req.handler = "concurrent"
    /\ req.pc[i] = "start"
    /\ req' = [req EXCEPT !.pc[i] =
                 IF req.ocpi_client = NoClient THEN "create" ELSE "fetch"]
    /\ UNCHANGED <<locations, tariffs, TARIFF_DECOMPOSITION_ENABLED, resp>>

\* _ensure_ocpi_client: "self.ocpi_client = OCPILocationClient(...)"
EnsureCreate ==
  \E i \in Invocations :
    /\ req.handler = "concurrent"
    /\ req.pc[i] = "create"
    /\ req' = [req EXCEPT !.pc[i] = "fetch", !.ocpi_client = EnvClient]
    /\ UNCHANGED <<locations, tariffs, TARIFF_DECOMPOSITION_ENABLED, resp>>

\* process_search_request, steps 1 and 2: the gps of the request, then
\* self.ocpi_client.get_all_locations()
FetchLocations ==
  \E i \in Invocations :
    /\ req.handler = "concurrent"
    /\ req.pc[i] = "fetch"
    /\ IF req.request[i].gps.kind # "ok"
       THEN /\ req' = [req EXCEPT !.pc[i] = "done"]
            /\ resp' = [resp EXCEPT !.out[i] = _create_error_search_response]
       ELSE IF locations = <<>>
       THEN /\ req' = [req EXCEPT !.pc[i] = "done"]
            /\ resp' = [resp EXCEPT !.out[i] = _create_empty_search_response]
       ELSE /\ req' = [req EXCEPT !.pc[i] = "filter", !.data[i] = locations]
            /\ UNCHANGED resp
    /\ UNCHANGED <<locations, tariffs, TARIFF_DECOMPOSITION_ENABLED>>

\* process_search_request, step 3: LocationFilter.filter_locations_by_proximity
\* writes distance_km on the records it keeps
FilterFetched ==
  \E i \in Invocations :
    /\ req.handler = "concurrent"
    /\ req.pc[i] = "filter"
    /\ LET r == req.request[i]
           written == LocationFilter_filter_locations_by_proximity(
                        req.data[i], r.gps.lat, r.gps.lon, r.radius)
       IN IF written = <<>>
          THEN /\ req' = [req EXCEPT !.pc[i] = "done",
                                     !.data = AnnotateOwn(req.data, i, written)]
               /\ resp' = [resp EXCEPT !.out[i] = _create_empty_search_response]
          ELSE /\ req' = [req EXCEPT !.pc[i] = "transform",
                                     !.data = AnnotateOwn(req.data, i, written)]
               /\ UNCHANGED resp
    /\ UNCHANGED <<locations, tariffs, TARIFF_DECOMPOSITION_ENABLED>>

\* the transformation filters again, within the default radius
TransformFilter ==
  \E i \in Invocations :
    /\ req.handler = "concurrent"
    /\ req.pc[i] = "transform"
    /\ LET r == req.request[i]
           written == Bridge_filter_locations_by_proximity(
                        req.data[i], r.gps, Km(DefaultRadiusKm))
       IN IF TransformRaises(written)
          THEN /\ req' = [req EXCEPT !.pc[i] = "done",
                                     !.data = AnnotateOwn(req.data, i, written)]
               /\ resp' = [resp EXCEPT !.out[i] = _create_error_search_response]
          ELSE /\ req' = [req EXCEPT !.pc[i] = "build",
                                     !.data = AnnotateOwn(req.data, i, written)]
               /\ UNCHANGED resp
    /\ UNCHANGED <<locations, tariffs, TARIFF_DECOMPOSITION_ENABLED>>

\* the loop over the locations reads distance_km of each record and builds
\* the catalog
BuildCatalog ==
  \E i \in Invocations :
    /\ req.handler = "concurrent"
    /\ req.pc[i] = "build"
    /\ LET ocpi_locations == req.data[i]
           lookup == IF TARIFF_DECOMPOSITION_ENABLED
                     THEN build_tariff_lookup(tariffs) ELSE <<>>
       IN resp' = [resp EXCEPT !.out[i] =
                     SearchResponse("catalog",
                       SearchLocations(ocpi_locations),
                       ItemsAfter(ocpi_locations, Len(Triples(ocpi_locations)),
                                  lookup, TARIFF_DECOMPOSITION_ENABLED),
                       SearchFulfillments(ocpi_locations))]
    /\ req' = [req EXCEPT !.pc[i] = "done"]
    /\ UNCHANGED <<locations, tariffs, TARIFF_DECOMPOSITION_ENABLED>>

ConcNext ==
  \/ EnsureCheck
  \/ EnsureCreate
  \/ FetchLocations
  \/ FilterFetched
  \/ TransformFilter
  \/ BuildCatalog

ConcSpec == ConcInit /\ [][ConcNext]_vars

\* the response the invocation returns when nothing else runs on the bridge
Sequential(i) ==
  process_search_request(req.request[i].gps, req.request[i].radius,
                         locations, tariffs, TARIFF_DECOMPOSITION_ENABLED)

----------------------------------------------------------------------------
(* transform_ocpi_cdr_to_beckn_response: the cost object of on_cdr *)

\* amounts of a CDR, in hundredths of the currency unit
CdrAmounts == {0, 5000, 5900, 10000, 11800}

\* ocpi_cdr_data["total_cost"]: a price with or without excl_vat and incl_vat
\* (the empty dict stands for a CDR without total_cost as well)
TotalCosts ==
  {[excl_vat |-> e, incl_vat |-> i] :
     e \in {NoValue} \cup {Value(a) : a \in CdrAmounts},
     i \in {NoValue} \cup {Value(a) : a \in CdrAmounts}}

\* push_response: None, a dict without status_code, or one with a code
NoPush == [given |-> FALSE, status_code |-> NoValue]
CdrPushResponses ==
  {NoPush, [given |-> TRUE, status_code |-> NoValue],
   [given |-> TRUE, status_code |-> Value(1000)],
   [given |-> TRUE, status_code |-> Value(2001)]}

\* d.get(key, default)
GetOr(field, default) == IF field = NoValue THEN default ELSE field.value

\* the "cost" object and billing_status of the returned order
transform_ocpi_cdr_to_beckn_response(total_cost, push_response) ==
  [action |-> "on_cdr",
   total_amount |-> GetOr(total_cost.incl_vat, GetOr(total_cost.excl_vat, 0)),
   base_amount |-> GetOr(total_cost.excl_vat, 0),
   tax_amount |-> GetOr(total_cost.incl_vat, 0) - GetOr(total_cost.excl_vat, 0),
   tax_rate |-> 18,
   billing_status |->
     IF push_response.given /\ push_response.status_code = Value(1000)
     THEN COMPLETED ELSE PENDING]

CdrInit ==
  /\ locations = <<>>
  /\ tariffs = <<>>
  /\ TARIFF_DECOMPOSITION_ENABLED = TRUE
  /\ \E total_cost \in TotalCosts, push_response \in CdrPushResponses :
       req = [handler |-> "transform_cdr", total_cost |-> total_cost,
              push_response |-> push_response, returned |-> FALSE]
  /\ resp = transform_ocpi_cdr_to_beckn_response(
              [excl_vat |-> NoValue, incl_vat |-> NoValue], NoPush)

TransformCdr ==
  /\ req.handler = "transform_cdr"
  /\ ~req.returned
  /\ req' = [req EXCEPT !.returned = TRUE]
  /\ resp' = transform_ocpi_cdr_to_beckn_response(req.total_cost, req.push_response)
  /\ UNCHANGED <<locations, tariffs, TARIFF_DECOMPOSITION_ENABLED>>

CdrNext == TransformCdr

CdrSpec == CdrInit /\ [][CdrNext]_vars

\* C26: in every on_cdr response the cost object is consistent, also for a
\* CDR whose total_cost lacks incl_vat or excl_vat: base_amount is the
\* total excluding VAT, total_amount the total including VAT, tax_amount is
\* not negative, total_amount = base_amount + tax_amount, tax_rate is 18;
\* billing_status is COMPLETED exactly when the push status code is 1000.
C26_CostObjectConsistent ==
  (req.handler = "transform_cdr" /\ req.returned) =>
    /\ resp.base_amount = GetOr(req.total_cost.excl_vat, 0)
    /\ resp.tax_amount >= 0
    /\ resp.total_amount = resp.base_amount + resp.tax_amount
    /\ resp.tax_rate = 18
    /\ (resp.billing_status = COMPLETED) <=>
         (req.push_response.given /\ req.push_response.status_code = Value(1000))

----------------------------------------------------------------------------
(* Currency of the prices resolved from a tariff *)

\* C27: whenever select or init report a price resolved from a tariff, the
\* currency of the unit price (per kWh) and of the quote total, and in init
\* of the breakup line and the payment, is the currency of that tariff: one
\* response never mixes the tariff's currency with a hard-coded one.
C27_PriceCurrencyIsTariffCurrency ==
  /\ (req.handler = "select" /\ resp.kind = "ok"
        /\ resp.items[1].tariff_id # <<>>) =>
       LET currency == DictGet(build_tariff_lookup(tariffs),
                               resp.items[1].tariff_id).currency
       IN /\ resp.items[1].price.currency = currency \o <<"/kWh">>
          /\ resp.quote.currency = currency
  /\ (req.handler = "init" /\ resp.kind = "ok") =>
       LET currency == DictGet(build_tariff_lookup(tariffs),
                               resp.confirmed_tariff_id).currency
       IN /\ resp.items[1].price.currency = currency \o <<"/kWh">>
          /\ resp.quote.currency = currency
          /\ resp.quote.breakup[1].currency = currency
          /\ resp.payments[1].currency = currency

----------------------------------------------------------------------------
(* Order of the collaborator calls of handle_stop_charging_session *)

\* the place of a collaborator call in the order of the stop path
StopCallOrder(c) ==
  CASE c = "get_session_status" -> 1
    [] c = "update_session" -> 2
    [] c = "generate_cdr" -> 3
    [] c = "push_cdr" -> 4
    [] OTHER -> 0

Called(c) == \E i \in 1..Len(resp.calls) : resp.calls[i] = c

\* C28: in every execution of handle_stop_charging_session the collaborator
\* calls occur in the order get_session_status (only when generate_cdr is
\* set), update_session, generate_cdr, push_cdr; generate_cdr is never
\* called before update_session has returned a session whose status is
\* STOPPED or COMPLETED; push_cdr is never called unless generate_cdr
\* returned a CDR in the same invocation; and a request whose status is not
\* a stop status raises before any collaborator call.
C28_StopCallsInOrder ==
  req.handler = "stop" =>
    /\ \A i \in 1..Len(resp.calls) : StopCallOrder(resp.calls[i]) > 0
    /\ \A i \in 1..Len(resp.calls) : \A j \in (i + 1)..Len(resp.calls) :
         StopCallOrder(resp.calls[i]) < StopCallOrder(resp.calls[j])
    /\ Called("get_session_status") => req.generate_cdr
    /\ Called("generate_cdr") =>
         /\ Called("update_session")
         /\ ~req.ocpi_update_response.raises
         /\ req.ocpi_update_response.status \in {STOPPED, COMPLETED}
    /\ Called("push_cdr") => (Called("generate_cdr") /\ ~req.cdr_data.raises)
    /\ ~IsStopStatus(Upper(req.update_status)) =>
         (resp.raised /\ resp.calls = <<>>)

\* a stop that ran all four calls, and in that order
C28_Witness ==
  /\ req.handler = "stop"
  /\ ~resp.raised
  /\ resp.calls = <<"get_session_status", "update_session",
                    "generate_cdr", "push_cdr">>
  /\ req.ocpi_update_response.status = STOPPED

----------------------------------------------------------------------------
(* on_init: item id, unit price and totals of one tariff *)

\* the tariff id an item id "<tariff_id>_<quantity>" encodes: what stands
\* before its last "_"; the whole id when it holds none
EncodedTariffId(id) ==
  IF US \in Range(id)
  THEN SubSeq(id, 1, (CHOOSE i \in 1..Len(id) :
                        id[i] = US /\ \A j \in (i + 1)..Len(id) : id[j] # US) - 1)
  ELSE id

\* C29: in every successful on_init response the item id, the unit price
\* and the totals refer to the same tariff: the tariff id encoded in the
\* returned item id is the tariff the unit price was taken from, and the
\* quote total, the single breakup entry and the amount of the first
\* payment all equal unit price times selected quantity, also when init
\* fell back to the first tariff of the connector.
C29_InitRefersToOneTariff ==
  (req.handler = "init" /\ resp.kind = "ok") =>
    LET tariff == DictGet(build_tariff_lookup(tariffs), resp.confirmed_tariff_id)
        unit == _extract_tariff_price_currency(tariff)
        total == resp.items[1].price.value * resp.items[1].selected
    IN /\ EncodedTariffId(resp.items[1].id) = resp.confirmed_tariff_id
       /\ resp.items[1].price.value = (IF unit.isNone THEN 0 ELSE unit.value)
       /\ resp.quote.value = total
       /\ Len(resp.quote.breakup) = 1
       /\ resp.quote.breakup[1].value = total
       /\ resp.payments[1].amount = total

----------------------------------------------------------------------------
(* Item ids of on_search read back by transform_beckn_select_to_ocpi_session *)

\* parts = item_id.split("_"); parts[1], parts[3], parts[5] (counted from
\* 0), ValueError when the id has fewer than six parts
transform_beckn_select_to_ocpi_session(item_id) ==
  LET parts == Split(item_id) IN
  IF Len(parts) < 6
  THEN [raised |-> TRUE, location_id |-> <<>>, evse_uid |-> <<>>,
        connector_id |-> <<>>]
  ELSE [raised |-> FALSE, location_id |-> parts[2], evse_uid |-> parts[4],
        connector_id |-> parts[6]]

\* C30: every item id emitted in an on_search catalog is accepted by
\* transform_beckn_select_to_ocpi_session and decoded to the location id,
\* EVSE uid and connector id of a connector the item was emitted for.
C30_SearchItemIdsDecode ==
  (req.handler = "search" /\ resp.kind = "catalog") =>
    \A i \in 1..Len(resp.items) :
      LET session == transform_beckn_select_to_ocpi_session(resp.items[i].id) IN
      /\ ~session.raised
      /\ \E n \in 1..Len(Triples(locations)) :
           LET t == Triples(locations)[n] IN
           /\ locations[t.l].id = session.location_id
           /\ EvseAt(locations, t).uid = session.evse_uid
           /\ ConnAt(locations, t).id = session.connector_id
           /\ FulfillmentId(EvseAt(locations, t), ConnAt(locations, t))
                \in Range(resp.items[i].fulfillment_ids)

=============================================================================
